---- MODULE Spec2Model ----
(***************************************************************************)
(* Model of app/services/circuit_aggregation.py: the circuit aggregation   *)
(* service (observation store, field resolver, resolution cache) and the   *)
(* panel parameter store.                                                  *)
(*                                                                         *)
(* Numbers.  A raw confidence is an integer number of ten-thousandths      *)
(* (One = 1.0).  The resolver's running product of complements is kept in  *)
(* units of 10^-8 and every multiplication is rounded to the nearest unit, *)
(* where the program's binary64 arithmetic rounds at about 10^-16; the     *)
(* values the program hands out are rounded to 3 (or 2) decimals.  Both    *)
(* round the product once per observation, in arrival order; the grain of  *)
(* the rounding differs, so that the model tells that the result of a      *)
(* fusion depends on the order of its observations, not for which order    *)
(* the program's result is the higher one.                                 *)
(*                                                                         *)
(* Python values.  None, a str and a number are the records None, Str(s)   *)
(* and Num(n); a str is the sequence of its characters, so that strip()    *)
(* and lower() are computed and not assumed.  A dict is a function, its    *)
(* keys the function's DOMAIN (the insertion order of a dict is not        *)
(* modelled: no operation modelled here depends on it except through the   *)
(* order of the lists it holds, which are sequences).  The timestamp of an *)
(* observation (datetime.now()) is left out: no operation reads it.        *)
(***************************************************************************)
EXTENDS Integers, Sequences, FiniteSets, TLC

VARIABLES
    observations,   \* CircuitAggregationService._observations
    cache,          \* CircuitAggregationService._resolved_cache
    store,          \* PanelParameterStore._store
    fobs,           \* the argument list of the last _resolve_field call driven directly
    fres,           \* the ResolvedField that call returned
    threads,        \* the calls that run in threads of their own: where each stands
                    \* and what it holds in its local variables
    added           \* history: for each task, the add_observation calls made for it
                    \* since its last clear_task

vars == <<observations, cache, store, fobs, fres, threads, added>>

-----------------------------------------------------------------------------
(* Bounds of the model *)

\* observations plus stored parameters held at any time (specification Spec)
MaxEntries == 2
\* length of the list handed to _resolve_field (specification SpecField)
MaxFieldObs == 3
\* stored parameters held at any time (specification SpecParam)
MaxParams == 2
\* length of the list handed to _resolve_field (specification SpecAgree)
MaxAgreeObs == 4
\* length of the list handed to _resolve_field (specification SpecOrder)
MaxOrderObs == 5

-----------------------------------------------------------------------------
(* Numbers *)

\* 1.0, in ten-thousandths
One == 10000

Min(a, b) == IF a <= b THEN a ELSE b

\* 1.0 in the unit of the running product (10^-8)
POne == One * One

\* round(x, 3) of a value x given in units of 10^-8; the result in ten-thousandths
Round3(x) == ((x + 50000) \div 100000) * 10

\* round(x, 2) of a value x given in units of 10^-8; the result in ten-thousandths
Round2(x) == ((x + 500000) \div 1000000) * 100

-----------------------------------------------------------------------------
(* Python values *)

None == [none |-> TRUE]
Str(s) == [str |-> s]
Num(n) == [num |-> n]

Bool(b) == [bool |-> b]

IsStr(v) == "str" \in DOMAIN v
IsNum(v) == "num" \in DOMAIN v
IsBool(v) == "bool" \in DOMAIN v

\* bool(v): None, "", 0 and False are falsy
Truthy(v) ==
    /\ v # None
    /\ IsStr(v) => v.str # <<>>
    /\ IsNum(v) => v.num # 0
    /\ IsBool(v) => v.bool

LowerLetters ==
    <<"a", "b", "c", "d", "e", "f", "g", "h", "i", "j", "k", "l", "m",
      "n", "o", "p", "q", "r", "s", "t", "u", "v", "w", "x", "y", "z">>

UpperLetters ==
    <<"A", "B", "C", "D", "E", "F", "G", "H", "I", "J", "K", "L", "M",
      "N", "O", "P", "Q", "R", "S", "T", "U", "V", "W", "X", "Y", "Z">>

Digits == <<"0", "1", "2", "3", "4", "5", "6", "7", "8", "9">>

\* the place of x in the sequence s, 0 when it is not there
IndexOf(s, x) == IF \E i \in 1..Len(s) : s[i] = x
                 THEN CHOOSE i \in 1..Len(s) : s[i] = x
                 ELSE 0

LowerChar(ch) ==
    IF IndexOf(UpperLetters, ch) > 0 THEN LowerLetters[IndexOf(UpperLetters, ch)] ELSE ch

UpperChar(ch) ==
    IF IndexOf(LowerLetters, ch) > 0 THEN UpperLetters[IndexOf(LowerLetters, ch)] ELSE ch

\* str.lower()
Lower(s) == [i \in 1..Len(s) |-> LowerChar(s[i])]

\* str.upper()
Upper(s) == [i \in 1..Len(s) |-> UpperChar(s[i])]

RECURSIVE LStrip(_)
LStrip(s) == IF s # <<>> /\ Head(s) = " " THEN LStrip(Tail(s)) ELSE s

RECURSIVE RStrip(_)
RStrip(s) ==
    IF s # <<>> /\ s[Len(s)] = " " THEN RStrip(SubSeq(s, 1, Len(s) - 1)) ELSE s

\* str.strip()
Strip(s) == RStrip(LStrip(s))

-----------------------------------------------------------------------------
(* Extraction methods and their weights *)

TEXT_OCR == "text_ocr"
AI_VISION == "ai_vision"
MANUAL == "manual"
AI_OCR_FALLBACK == "ai_ocr_fallback"

ExtractionMethod == {TEXT_OCR, AI_VISION, MANUAL, AI_OCR_FALLBACK}

\* weights that put MANUAL above AI_OCR_FALLBACK
MethodWeightGraded(method) ==
    CASE method = MANUAL -> 7500
      [] method = AI_VISION -> 8500
      [] method = AI_OCR_FALLBACK -> 7000
      [] method = TEXT_OCR -> 6000
      [] OTHER -> 5000

\* METHOD_CONFIDENCE_WEIGHTS.get(method, 0.5), in ten-thousandths
MethodWeight(method) ==
    CASE method = MANUAL -> 7000
      [] method = AI_VISION -> 8500
      [] method = AI_OCR_FALLBACK -> 7000
      [] method = TEXT_OCR -> 6000
      [] OTHER -> 5000

\* CircuitAggregationService.CONFLICT_THRESHOLD, in ten-thousandths
CONFLICT_THRESHOLD == 3000

\* the cap of a fused confidence (0.98), in ten-thousandths
CONFIDENCE_CAP == 9800

-----------------------------------------------------------------------------
(* _resolve_field *)

\* a tuple (value, conf, source, method) of the list _resolve_field is given
FieldTuple(value, conf, source, method) ==
    [value |-> value, conf |-> conf, source |-> source, method |-> method]

\* the normalization without lower()
NormalizeValueStripped(v) == IF IsStr(v) THEN Str(Strip(v.str)) ELSE v

\* value.strip().lower() if isinstance(value, str) else value
NormalizeValue(v) == IF IsStr(v) THEN Str(Lower(Strip(v.str))) ELSE v

\* the keys of value_groups, in the order the dict received them
RECURSIVE GroupKeys(_)
GroupKeys(obs) ==
    IF obs = <<>> THEN <<>>
    ELSE LET front == SubSeq(obs, 1, Len(obs) - 1)
             keys == GroupKeys(front)
             k == NormalizeValue(obs[Len(obs)].value)
         IN IF \E i \in 1..Len(keys) : keys[i] = k THEN keys ELSE Append(keys, k)

\* value_groups[k]: the tuples whose value normalizes to k, in arrival order
GroupMembers(obs, k) == SelectSeq(obs, LAMBDA o : NormalizeValue(o.value) = k)

\* the weight taken as a multiplier instead of a ceiling
EffectiveConfProduct(o) == (o.conf * MethodWeight(o.method)) \div One

\* min(conf, weight)
EffectiveConf(o) == Min(o.conf, MethodWeight(o.method))

\* the highest single confidence kept instead of the product of the complements
KeepLowestComplement(p, e) == Min(p, (One - e) * One)

\* product *= (1.0 - effective_conf): p in units of 10^-8, e in ten-thousandths
MulComplement(p, e) ==
    LET c == One - e
    IN (p \div One) * c + ((p % One) * c + One \div 2) \div One

\* the product of the complements of a group's effective confidences
RECURSIVE GroupProduct(_)
GroupProduct(members) ==
    IF members = <<>> THEN POne
    ELSE MulComplement(GroupProduct(SubSeq(members, 1, Len(members) - 1)),
                       EffectiveConf(members[Len(members)]))

\* the sources of a group, each once, in arrival order
RECURSIVE GroupSources(_)
GroupSources(members) ==
    IF members = <<>> THEN <<>>
    ELSE LET front == GroupSources(SubSeq(members, 1, Len(members) - 1))
             s == members[Len(members)].source
         IN IF \E i \in 1..Len(front) : front[i] = s THEN front ELSE Append(front, s)

\* the fusion without its cap
CombinedConfUncapped(members) == POne - GroupProduct(members)

\* the last observation of a group taken alone instead of the fusion of all of them
CombinedConfLast(members) ==
    Min(CONFIDENCE_CAP * One,
        POne - MulComplement(POne, EffectiveConf(members[Len(members)])))

\* min(0.98, 1.0 - product), in units of 10^-8
CombinedConf(members) == Min(CONFIDENCE_CAP * One, POne - GroupProduct(members))

\* one entry of value_confidences
GroupEntry(obs, k) ==
    LET members == GroupMembers(obs, k)
    IN [value |-> members[1].value,
        conf |-> CombinedConf(members),
        sources |-> GroupSources(members)]

\* value_confidences before the sort: one entry per group, in dict order
ValueConfidences(obs) ==
    LET keys == GroupKeys(obs)
    IN [i \in 1..Len(keys) |-> GroupEntry(obs, keys[i])]

\* the place of e in a list sorted by confidence, highest first, behind its equals
RECURSIVE InsertDesc(_, _)
InsertDesc(sorted, e) ==
    IF sorted = <<>> THEN <<e>>
    ELSE IF Head(sorted).conf >= e.conf
         THEN <<Head(sorted)>> \o InsertDesc(Tail(sorted), e)
         ELSE <<e>> \o sorted

\* list.sort(key=lambda x: x[1], reverse=True): stable
RECURSIVE SortDesc(_)
SortDesc(s) ==
    IF s = <<>> THEN <<>>
    ELSE InsertDesc(SortDesc(SubSeq(s, 1, Len(s) - 1)), s[Len(s)])

\* the audit list without its bar
IsCompetingWhatever(e) == e.conf >= 0

\* the bar of the audit list put at 0.5
IsCompetingAboveHalf(e) == e.conf >= (One \div 2) * One

\* conf >= CONFLICT_THRESHOLD
IsCompeting(e) == e.conf >= CONFLICT_THRESHOLD * One

\* the relative test without its factor 0.5
IsCloseToBestWhole(e, best) == e.conf >= best.conf

\* conf >= best_conf * 0.5
IsCloseToBest(e, best) == 2 * e.conf >= best.conf

ResolvedField(value, confidence, sources, has_conflict, competing_values) ==
    [value |-> value, confidence |-> confidence, sources |-> sources,
     has_conflict |-> has_conflict, competing_values |-> competing_values]

\* what _resolve_field returns for the winner and the competing entries behind it
ResolveBest(best, rest) ==
    ResolvedField(
        best.value,
        Round3(best.conf),
        best.sources,
        \E i \in 1..Len(rest) : IsCloseToBest(rest[i], best),
        [i \in 1..Len(rest) |-> <<rest[i].value, Round2(rest[i].conf)>>])

\* what _resolve_field returns for the sorted value_confidences
ResolveSorted(vc) == ResolveBest(vc[1], SelectSeq(Tail(vc), IsCompeting))

ResolveField(obs) ==
    IF obs = <<>> THEN ResolvedField(None, 0, <<>>, FALSE, <<>>)
    ELSE ResolveSorted(SortDesc(ValueConfidences(obs)))

-----------------------------------------------------------------------------
(* dicts *)

HasKey(d, k) == k \in DOMAIN d

\* d[k] = v
Put(d, k, v) == [x \in (DOMAIN d) \cup {k} |-> IF x = k THEN v ELSE d[x]]

\* del d[k]
Del(d, k) == [x \in (DOMAIN d) \ {k} |-> d[x]]

-----------------------------------------------------------------------------
(* CircuitAggregationService *)

\* the state of a service: its two dicts
Service(obs, resolved_cache) == [observations |-> obs, cache |-> resolved_cache]

\* the arguments of add_observation after task_id and circuit_num
ObservationArgs(source_id, method, description, description_confidence, breaker_amps, amps_confidence, poles, poles_confidence, load_amps, load_confidence, load_type, load_type_confidence) ==
    [source_id |-> source_id, method |-> method,
     description |-> description, description_confidence |-> description_confidence,
     breaker_amps |-> breaker_amps, amps_confidence |-> amps_confidence,
     poles |-> poles, poles_confidence |-> poles_confidence,
     load_amps |-> load_amps, load_confidence |-> load_confidence,
     load_type |-> load_type, load_type_confidence |-> load_type_confidence]

\* the CircuitObservation add_observation builds
CircuitObservation(circuit_num, a) ==
    [circuit_num |-> circuit_num,
     source_id |-> a.source_id, method |-> a.method,
     description |-> a.description,
     description_confidence |-> a.description_confidence,
     breaker_amps |-> a.breaker_amps, amps_confidence |-> a.amps_confidence,
     poles |-> a.poles, poles_confidence |-> a.poles_confidence,
     load_amps |-> a.load_amps, load_confidence |-> a.load_confidence,
     load_type |-> a.load_type, load_type_confidence |-> a.load_type_confidence]

\* self._observations[task_id][circuit_num], or [] where add_observation would create it
ObservationsOf(S, task_id, circuit_num) ==
    IF HasKey(S.observations, task_id) /\ HasKey(S.observations[task_id], circuit_num)
    THEN S.observations[task_id][circuit_num]
    ELSE <<>>

\* the new observation put in front of the list instead of behind it
PrependObservation(lst, observation) == <<observation>> \o lst

\* the list add_observation leaves under (task_id, circuit_num)
AppendObservation(lst, observation) == Append(lst, observation)

\* no invalidation at all
InvalidateCacheNever(resolved_cache, task_id, circuit_num) == resolved_cache

\* the invalidation of the whole task instead of the one circuit
InvalidateCacheOfTask(resolved_cache, task_id, circuit_num) ==
    IF HasKey(resolved_cache, task_id) THEN Del(resolved_cache, task_id)
    ELSE resolved_cache

\* the cache after add_observation's invalidation
InvalidateCache(resolved_cache, task_id, circuit_num) ==
    IF HasKey(resolved_cache, task_id) /\ HasKey(resolved_cache[task_id], circuit_num)
    THEN Put(resolved_cache, task_id, Del(resolved_cache[task_id], circuit_num))
    ELSE resolved_cache

\* add_observation: the service it leaves
ServiceAddObservation(S, task_id, circuit_num, a) ==
    LET ofTask == IF HasKey(S.observations, task_id)
                  THEN S.observations[task_id] ELSE <<>>
        lst == AppendObservation(ObservationsOf(S, task_id, circuit_num),
                                 CircuitObservation(circuit_num, a))
    IN Service(Put(S.observations, task_id, Put(ofTask, circuit_num, lst)),
               InvalidateCache(S.cache, task_id, circuit_num))

\* the list comprehensions that feed the fields to _resolve_field
DescriptionTuples(lst) ==
    LET sel == SelectSeq(lst, LAMBDA o : Truthy(o.description))
    IN [i \in 1..Len(sel) |->
           FieldTuple(sel[i].description, sel[i].description_confidence,
                      sel[i].source_id, sel[i].method)]

BreakerAmpsTuples(lst) ==
    LET sel == SelectSeq(lst, LAMBDA o : o.breaker_amps # None)
    IN [i \in 1..Len(sel) |->
           FieldTuple(sel[i].breaker_amps, sel[i].amps_confidence,
                      sel[i].source_id, sel[i].method)]

PolesTuples(lst) ==
    LET sel == SelectSeq(lst, LAMBDA o : o.poles # None)
    IN [i \in 1..Len(sel) |->
           FieldTuple(sel[i].poles, sel[i].poles_confidence,
                      sel[i].source_id, sel[i].method)]

LoadAmpsTuples(lst) ==
    LET sel == SelectSeq(lst, LAMBDA o : o.load_amps # None)
    IN [i \in 1..Len(sel) |->
           FieldTuple(sel[i].load_amps, sel[i].load_confidence,
                      sel[i].source_id, sel[i].method)]

LoadTypeTuples(lst) ==
    LET sel == SelectSeq(lst, LAMBDA o : Truthy(o.load_type))
    IN [i \in 1..Len(sel) |->
           FieldTuple(sel[i].load_type, sel[i].load_type_confidence,
                      sel[i].source_id, sel[i].method)]

\* ResolvedCircuit, with its needs_review property
ResolvedCircuit(circuit_num, description, breaker_amps, poles, load_amps, load_type, observations_count) ==
    [circuit_num |-> circuit_num,
     description |-> description,
     breaker_amps |-> breaker_amps,
     poles |-> poles,
     load_amps |-> load_amps,
     load_type |-> load_type,
     observations_count |-> observations_count,
     needs_review |-> \/ description.has_conflict
                      \/ breaker_amps.has_conflict
                      \/ poles.has_conflict
                      \/ load_type.has_conflict]

\* the ResolvedCircuit get_resolved_circuit computes from a circuit's observations
ResolveCircuit(circuit_num, lst) ==
    ResolvedCircuit(circuit_num,
                    ResolveField(DescriptionTuples(lst)),
                    ResolveField(BreakerAmpsTuples(lst)),
                    ResolveField(PolesTuples(lst)),
                    ResolveField(LoadAmpsTuples(lst)),
                    ResolveField(LoadTypeTuples(lst)),
                    Len(lst))

IsCached(S, task_id, circuit_num) ==
    HasKey(S.cache, task_id) /\ HasKey(S.cache[task_id], circuit_num)

\* the cache after get_resolved_circuit stored what it computed
CacheResult(resolved_cache, task_id, circuit_num, resolved) ==
    Put(resolved_cache, task_id,
        Put(IF HasKey(resolved_cache, task_id) THEN resolved_cache[task_id] ELSE <<>>,
            circuit_num, resolved))

\* get_resolved_circuit: what it returns
GetResolvedCircuitRet(S, task_id, circuit_num) ==
    IF ~HasKey(S.observations, task_id) THEN None
    ELSE IF ~HasKey(S.observations[task_id], circuit_num) THEN None
    ELSE IF IsCached(S, task_id, circuit_num) THEN S.cache[task_id][circuit_num]
    ELSE ResolveCircuit(circuit_num, S.observations[task_id][circuit_num])

\* a lookup that creates the dict of a task it does not find, as setdefault would
ServiceGetResolvedCircuitCreating(S, task_id, circuit_num) ==
    Service(IF HasKey(S.observations, task_id) THEN S.observations
            ELSE Put(S.observations, task_id, <<>>),
            S.cache)

\* get_resolved_circuit: the service it leaves
ServiceGetResolvedCircuit(S, task_id, circuit_num) ==
    IF ~HasKey(S.observations, task_id) THEN S
    ELSE IF ~HasKey(S.observations[task_id], circuit_num) THEN S
    ELSE IF IsCached(S, task_id, circuit_num) THEN S
    ELSE Service(S.observations,
                 CacheResult(S.cache, task_id, circuit_num,
                             GetResolvedCircuitRet(S, task_id, circuit_num)))

\* the circuits of a task, in some order
RECURSIVE SetToSeq(_)
SetToSeq(s) ==
    IF s = {} THEN <<>>
    ELSE LET x == CHOOSE y \in s : TRUE IN <<x>> \o SetToSeq(s \ {x})

\* the service after get_resolved_circuit was called for each circuit of cs in turn
RECURSIVE ServiceResolveEach(_, _, _)
ServiceResolveEach(S, task_id, cs) ==
    IF cs = <<>> THEN S
    ELSE ServiceResolveEach(ServiceGetResolvedCircuit(S, task_id, Head(cs)),
                            task_id, Tail(cs))

\* get_all_resolved_circuits: the service it leaves
ServiceGetAllResolvedCircuits(S, task_id) ==
    IF ~HasKey(S.observations, task_id) THEN S
    ELSE ServiceResolveEach(S, task_id, SetToSeq(DOMAIN S.observations[task_id]))

\* get_all_resolved_circuits: what it returns
GetAllResolvedCircuitsRet(S, task_id) ==
    IF ~HasKey(S.observations, task_id) THEN <<>>
    ELSE [c \in DOMAIN S.observations[task_id] |-> GetResolvedCircuitRet(S, task_id, c)]

\* a clear_task that empties the service of every task
ServiceClearEverything(S, task_id) == Service(<<>>, <<>>)

\* a clear_task that drops the cache and keeps the observations
ServiceClearTaskCacheOnly(S, task_id) ==
    Service(S.observations,
            IF HasKey(S.cache, task_id) THEN Del(S.cache, task_id) ELSE S.cache)

\* clear_task: the service it leaves
ServiceClearTask(S, task_id) ==
    Service(IF HasKey(S.observations, task_id)
            THEN Del(S.observations, task_id) ELSE S.observations,
            IF HasKey(S.cache, task_id) THEN Del(S.cache, task_id) ELSE S.cache)

-----------------------------------------------------------------------------
(* get_aggregation_summary *)

\* the confidences ResolvedCircuit._overall_confidence averages
OverallConfidences(rc) ==
    (IF Truthy(rc.description.value) THEN <<rc.description.confidence>> ELSE <<>>)
    \o (IF Truthy(rc.breaker_amps.value) THEN <<rc.breaker_amps.confidence>> ELSE <<>>)
    \o (IF Truthy(rc.poles.value) THEN <<rc.poles.confidence>> ELSE <<>>)
    \o (IF Truthy(rc.load_type.value) THEN <<rc.load_type.confidence>> ELSE <<>>)

RECURSIVE SumSeq(_)
SumSeq(s) == IF s = <<>> THEN 0 ELSE Head(s) + SumSeq(Tail(s))

\* ResolvedCircuit._overall_confidence, times 12 (a mean of 1 to 4 confidences)
OverallConfidence12(rc) ==
    LET confidences == OverallConfidences(rc)
    IN IF confidences = <<>> THEN 0
       ELSE SumSeq(confidences) * (12 \div Len(confidences))

\* round(num / den, 2), num and the result in ten-thousandths
RoundRatio2(num, den) == ((2 * num + 100 * den) \div (200 * den)) * 100

\* the source ids get_aggregation_summary collects from one circuit
SummarySources(rc) ==
    {rc.description.sources[i] : i \in 1..Len(rc.description.sources)}
    \cup {rc.breaker_amps.sources[i] : i \in 1..Len(rc.breaker_amps.sources)}
    \cup {rc.poles.sources[i] : i \in 1..Len(rc.poles.sources)}

\* a summary whose total_observations is the number of lists instead of their lengths
AggregationSummaryOfLists(S, task_id, all_resolved, cs, n) ==
    [total_circuits |-> n,
     total_observations |-> Cardinality(DOMAIN S.observations[task_id]),
     circuits_with_conflicts |->
         Cardinality({c \in DOMAIN all_resolved : all_resolved[c].needs_review}),
     average_confidence |->
         IF n = 0 THEN 0
         ELSE RoundRatio2(
                  SumSeq([i \in 1..n |-> OverallConfidence12(all_resolved[cs[i]])]),
                  12 * n),
     sources |-> UNION {SummarySources(all_resolved[c]) : c \in DOMAIN all_resolved}]

\* the summary of the resolved circuits cs[1..n] of a task (sources: the list as a set)
AggregationSummary(S, task_id, all_resolved, cs, n) ==
    [total_circuits |-> n,
     total_observations |->
         SumSeq([i \in 1..n |-> Len(S.observations[task_id][cs[i]])]),
     circuits_with_conflicts |->
         Cardinality({c \in DOMAIN all_resolved : all_resolved[c].needs_review}),
     average_confidence |->
         IF n = 0 THEN 0
         ELSE RoundRatio2(
                  SumSeq([i \in 1..n |-> OverallConfidence12(all_resolved[cs[i]])]),
                  12 * n),
     sources |-> UNION {SummarySources(all_resolved[c]) : c \in DOMAIN all_resolved}]

\* get_aggregation_summary: what it returns
GetAggregationSummaryRet(S, task_id) ==
    IF ~HasKey(S.observations, task_id)
    THEN [total_circuits |-> 0, total_observations |-> 0,
          circuits_with_conflicts |-> 0, average_confidence |-> 0, sources |-> {}]
    ELSE AggregationSummary(S, task_id, GetAllResolvedCircuitsRet(S, task_id),
                            SetToSeq(DOMAIN S.observations[task_id]),
                            Cardinality(DOMAIN S.observations[task_id]))

\* get_aggregation_summary: the service it leaves
ServiceGetAggregationSummary(S, task_id) == ServiceGetAllResolvedCircuits(S, task_id)

-----------------------------------------------------------------------------
(* add_observations_from_ocr_result *)

\* the mark of a key a dict does not hold
Absent == [absent |-> TRUE]

\* dict.get(key, default): v is the value under the key, or Absent
DictGet(v, default) == IF v = Absent THEN default ELSE v

MISSING == Str(<<"M", "I", "S", "S", "I", "N", "G">>)

IsDigits(s) == s # <<>> /\ \A i \in 1..Len(s) : IndexOf(Digits, s[i]) > 0

RECURSIVE DigitsValue(_)
DigitsValue(s) ==
    IF s = <<>> THEN 0
    ELSE 10 * DigitsValue(SubSeq(s, 1, Len(s) - 1)) + (IndexOf(Digits, s[Len(s)]) - 1)

\* int(s) of a str: surrounding blanks, an optional sign, digits
ParseInt(s) ==
    LET t == Strip(s)
        signed == t # <<>> /\ Head(t) \in {"-", "+"}
        body == IF signed THEN Tail(t) ELSE t
    IN IF IsDigits(body)
       THEN [ok |-> TRUE,
             val |-> IF signed /\ Head(t) = "-" THEN 0 - DigitsValue(body)
                     ELSE DigitsValue(body)]
       ELSE [ok |-> FALSE, val |-> 0]

\* int(v): ok is FALSE where int raises ValueError or TypeError
PyInt(v) ==
    IF IsNum(v) THEN [ok |-> TRUE, val |-> v.num]
    ELSE IF IsBool(v) THEN [ok |-> TRUE, val |-> IF v.bool THEN 1 ELSE 0]
    ELSE IF IsStr(v) THEN ParseInt(v.str)
    ELSE [ok |-> FALSE, val |-> 0]

RECURSIVE DecimalDigits(_)
DecimalDigits(n) ==
    IF n < 10 THEN <<Digits[n + 1]>>
    ELSE Append(DecimalDigits(n \div 10), Digits[(n % 10) + 1])

\* str(v)
PyStr(v) ==
    IF IsStr(v) THEN v.str
    ELSE IF IsNum(v)
         THEN IF v.num < 0 THEN <<"-">> \o DecimalDigits(0 - v.num)
              ELSE DecimalDigits(v.num)
    ELSE IF IsBool(v)
         THEN IF v.bool THEN <<"T", "r", "u", "e">> ELSE <<"F", "a", "l", "s", "e">>
    ELSE <<"N", "o", "n", "e">>

LoadTypes ==
    {<<"L", "T", "G">>, <<"R", "C", "P">>, <<"M", "T", "R">>, <<"C">>, <<"N", "C">>}

\* 'MISSING' and None give None; otherwise int(v), or None where int raises
CoerceInt(v) ==
    IF v = MISSING THEN None
    ELSE IF v # None
         THEN IF PyInt(v).ok THEN Num(PyInt(v).val) ELSE None
         ELSE None

\* str(v).upper().strip() when it names a load type, otherwise None
NormalizeLoadType(v) ==
    LET u == Strip(Upper(PyStr(v)))
    IN IF u \in LoadTypes THEN Str(u) ELSE None

\* the load_type of a circuit entry
CoerceLoadType(v) ==
    IF v = MISSING THEN None
    ELSE IF v # None THEN NormalizeLoadType(v)
    ELSE None

\* an entry of `circuits`: each key holds a value or Absent
OcrCircuit(number, description, breaker_amps, breaker_poles, load_type, confidence, visual_pole_detection) ==
    [number |-> number, description |-> description, breaker_amps |-> breaker_amps,
     breaker_poles |-> breaker_poles, load_type |-> load_type,
     confidence |-> confidence, visual_pole_detection |-> visual_pole_detection]

\* the parts of a notification: what changed against the resolution before
ChangedParts(existing, new_resolved) ==
    LET existing_poles == IF existing # None THEN existing.poles.value ELSE None
        existing_amps == IF existing # None THEN existing.breaker_amps.value ELSE None
        existing_desc == IF existing # None THEN existing.description.value ELSE None
        existing_load_type == IF existing # None THEN existing.load_type.value ELSE None
    IN (IF Truthy(new_resolved.poles.value) /\ new_resolved.poles.value # existing_poles
        THEN <<[part |-> "pole", value |-> new_resolved.poles.value]>> ELSE <<>>)
       \o (IF Truthy(new_resolved.breaker_amps.value)
              /\ new_resolved.breaker_amps.value # existing_amps
           THEN <<[part |-> "A", value |-> new_resolved.breaker_amps.value]>> ELSE <<>>)
       \o (IF Truthy(new_resolved.description.value)
              /\ new_resolved.description.value # existing_desc
           THEN <<[part |-> "description", value |-> new_resolved.description.value]>>
           ELSE <<>>)
       \o (IF Truthy(new_resolved.load_type.value)
              /\ new_resolved.load_type.value # existing_load_type
           THEN <<[part |-> "type", value |-> new_resolved.load_type.value]>> ELSE <<>>)

\* a notification for every entry that was ingested, whether or not a value changed
NotificationsOfEveryEntry(circuit_num, existing, new_resolved, detection_method) ==
    IF new_resolved = None THEN <<>>
    ELSE <<[kind |-> IF existing = None THEN "BREAKER INFO FOUND"
                     ELSE "BREAKER INFO UPDATED",
            circuit_num |-> circuit_num,
            changed_parts |-> ChangedParts(existing, new_resolved),
            combined_from |-> IF new_resolved.observations_count > 1
                              THEN new_resolved.observations_count ELSE 0,
            ai_vision |-> new_resolved.observations_count <= 1
                          /\ detection_method = AI_VISION]>>

\* the notifications one circuit entry adds: none, or one
Notifications(circuit_num, existing, new_resolved, detection_method) ==
    LET changed_parts == ChangedParts(existing, new_resolved)
    IN IF new_resolved = None \/ changed_parts = <<>> THEN <<>>
       ELSE <<[kind |-> IF existing = None THEN "BREAKER INFO FOUND"
                        ELSE "BREAKER INFO UPDATED",
               circuit_num |-> circuit_num,
               changed_parts |-> changed_parts,
               combined_from |-> IF new_resolved.observations_count > 1
                                 THEN new_resolved.observations_count ELSE 0,
               ai_vision |-> new_resolved.observations_count <= 1
                             /\ detection_method = AI_VISION]>>

\* what the call has done so far: the service, the notifications, and whether it raised
Ingested(S, notifications, raised) ==
    [service |-> S, notifications |-> notifications, raised |-> raised]

\* one pass of the loop over `circuits`
IngestCircuit(S, task_id, source_id, method, circuit) ==
    LET number == PyInt(DictGet(circuit.number, Num(0)))
        circuit_num == number.val
        d == DictGet(circuit.description, None)
        desc == IF d = MISSING THEN None ELSE d
        amps == CoerceInt(DictGet(circuit.breaker_amps, None))
        poles == CoerceInt(DictGet(circuit.breaker_poles, None))
        load_type == CoerceLoadType(DictGet(circuit.load_type, None))
        visual == Truthy(DictGet(circuit.visual_pole_detection, None))
        detection_method == IF visual THEN AI_VISION ELSE method
        existing == GetResolvedCircuitRet(S, task_id, circuit_num)
        S1 == ServiceGetResolvedCircuit(S, task_id, circuit_num)
        S2 == ServiceAddObservation(S1, task_id, circuit_num,
                  ObservationArgs(source_id, detection_method,
                      desc, DictGet(circuit.confidence, Num(8000)).num,
                      amps, 8000,
                      poles, IF visual THEN 9000 ELSE 7000,
                      None, 8000,
                      load_type, 8000))
        new_resolved == GetResolvedCircuitRet(S2, task_id, circuit_num)
        S3 == ServiceGetResolvedCircuit(S2, task_id, circuit_num)
    IN IF ~number.ok THEN Ingested(S, <<>>, TRUE)
       ELSE IF circuit_num <= 0 THEN Ingested(S, <<>>, FALSE)
       ELSE IF desc = None /\ amps = None /\ poles = None /\ load_type = None
            THEN Ingested(S, <<>>, FALSE)
       ELSE Ingested(S3,
                     Notifications(circuit_num, existing, new_resolved, detection_method),
                     FALSE)

\* the result of the passes so far, followed by the result of the passes behind them
ThenIngested(notifications, rest) ==
    Ingested(rest.service, notifications \o rest.notifications, rest.raised)

\* the loop over `circuits`, left where int() raises
RECURSIVE IngestCircuits(_, _, _, _, _)
RECURSIVE IngestRest(_, _, _, _, _)
IngestCircuits(S, task_id, source_id, method, circuits) ==
    IF circuits = <<>> THEN Ingested(S, <<>>, FALSE)
    ELSE IngestRest(IngestCircuit(S, task_id, source_id, method, Head(circuits)),
                    task_id, source_id, method, Tail(circuits))

\* the passes behind the first one
IngestRest(first, task_id, source_id, method, circuits) ==
    IF first.raised THEN first
    ELSE ThenIngested(first.notifications,
                      IngestCircuits(first.service, task_id, source_id, method, circuits))

\* a breaker group of visual_breakers
VisualBreaker(circuits, poles, amps, description, load_type) ==
    [circuits |-> circuits, poles |-> poles, amps |-> amps,
     description |-> description, load_type |-> load_type]

\* the service after one AI_VISION observation for each circuit of a breaker group
RECURSIVE IngestBreakerCircuits(_, _, _, _, _)
IngestBreakerCircuits(S, task_id, source_id, breaker, circuits_list) ==
    IF circuits_list = <<>> THEN S
    ELSE LET blt == DictGet(breaker.load_type, None)
             breaker_load_type == IF Truthy(blt) THEN NormalizeLoadType(blt) ELSE blt
             desc == DictGet(breaker.description, None)
             S1 == ServiceAddObservation(S, task_id, Head(circuits_list),
                       ObservationArgs(source_id, AI_VISION,
                           IF Truthy(desc) THEN desc ELSE None, 8500,
                           DictGet(breaker.amps, None), 8500,
                           DictGet(breaker.poles, None), 9000,
                           None, 8000,
                           breaker_load_type, 8500))
         IN IngestBreakerCircuits(S1, task_id, source_id, breaker, Tail(circuits_list))

\* the loop over visual_breakers['breakers']
RECURSIVE IngestBreakers(_, _, _, _)
IngestBreakers(S, task_id, source_id, breakers) ==
    IF breakers = <<>> THEN S
    ELSE IngestBreakers(
             IngestBreakerCircuits(S, task_id, source_id, Head(breakers),
                                   Head(breakers).circuits),
             task_id, source_id, Tail(breakers))

\* visual_breakers: None, or [ai_vision_success, breakers]
IngestVisual(S, task_id, source_id, visual_breakers) ==
    IF visual_breakers # None /\ Truthy(visual_breakers.ai_vision_success)
    THEN IngestBreakers(S, task_id, source_id, visual_breakers.breakers)
    ELSE S

\* the part of add_observations_from_ocr_result behind the loop over `circuits`
IngestVisualAfter(loop, task_id, source_id, visual_breakers) ==
    IF loop.raised THEN loop
    ELSE Ingested(IngestVisual(loop.service, task_id, source_id, visual_breakers),
                  loop.notifications, FALSE)

\* add_observations_from_ocr_result: the service it leaves, the notifications it
\* returns, and whether it raised instead of returning
AddObservationsFromOcrResult(S, task_id, source_id, circuits, method, visual_breakers) ==
    IngestVisualAfter(IngestCircuits(S, task_id, source_id, method, circuits),
                      task_id, source_id, visual_breakers)

\* whether a pass of the loop over `circuits` gets as far as add_observation
ReachesAddObservation(circuit) ==
    LET d == DictGet(circuit.description, None)
    IN /\ PyInt(DictGet(circuit.number, Num(0))).val > 0
       /\ \/ (d # MISSING /\ d # None)
          \/ CoerceInt(DictGet(circuit.breaker_amps, None)) # None
          \/ CoerceInt(DictGet(circuit.breaker_poles, None)) # None
          \/ CoerceLoadType(DictGet(circuit.load_type, None)) # None

\* the entries of `circuits` the loop gets to: all of them, or those before the one
\* whose number int() does not take
RECURSIVE EntriesReached(_)
EntriesReached(circuits) ==
    IF circuits = <<>> THEN <<>>
    ELSE IF ~PyInt(DictGet(Head(circuits).number, Num(0))).ok THEN <<>>
    ELSE <<Head(circuits)>> \o EntriesReached(Tail(circuits))

\* the add_observation calls of the loop over visual_breakers['breakers']
RECURSIVE BreakerAddCalls(_)
BreakerAddCalls(breakers) ==
    IF breakers = <<>> THEN 0
    ELSE Len(Head(breakers).circuits) + BreakerAddCalls(Tail(breakers))

\* the number of add_observation calls add_observations_from_ocr_result makes
AddCalls(circuits, visual_breakers) ==
    LET reached == EntriesReached(circuits)
    IN Len(SelectSeq(reached, ReachesAddObservation))
       + (IF /\ Len(reached) = Len(circuits)
             /\ visual_breakers # None
             /\ Truthy(visual_breakers.ai_vision_success)
          THEN BreakerAddCalls(visual_breakers.breakers)
          ELSE 0)

-----------------------------------------------------------------------------
(* PanelParameterStore *)

\* ParameterValue (its timestamp left out)
ParameterValue(value, confidence, method, source_id) ==
    [value |-> value, confidence |-> confidence, method |-> method,
     source_id |-> source_id]

\* min(1.0, confidence * weight), in units of 10^-8
WeightedConfidence(confidence, method) == Min(POne, confidence * MethodWeight(method))

\* ParameterValue.effective_confidence
ParamEffectiveConfidence(pv) == WeightedConfidence(pv.confidence, pv.method)

\* PanelParameterStore.TRACKED_PARAMETERS
TRACKED_PARAMETERS ==
    {<<"v", "o", "l", "t", "a", "g", "e">>,
     <<"p", "h", "a", "s", "e">>,
     <<"w", "i", "r", "e">>,
     <<"m", "a", "i", "n", "_", "b", "u", "s", "_", "a", "m", "p", "s">>,
     <<"m", "a", "i", "n", "_", "b", "r", "e", "a", "k", "e", "r">>,
     <<"m", "o", "u", "n", "t", "i", "n", "g">>,
     <<"f", "e", "e", "d">>,
     <<"l", "o", "c", "a", "t", "i", "o", "n">>,
     <<"f", "e", "d", "_", "f", "r", "o", "m">>,
     <<"p", "a", "n", "e", "l", "_", "n", "a", "m", "e">>,
     <<"s", "h", "o", "r", "t", "_", "c", "i", "r", "c", "u", "i", "t", "_", "r", "a", "t", "i", "n", "g">>,
     <<"f", "e", "e", "d", "_", "t", "h", "r", "u", "_", "l", "u", "g", "s">>}

\* get_parameter
GetParameterRet(st, task_id, param_name) ==
    IF ~HasKey(st, task_id) THEN None
    ELSE IF HasKey(st[task_id], param_name) THEN st[task_id][param_name] ELSE None

\* get_value
GetValueRet(st, task_id, param_name) ==
    LET param == GetParameterRet(st, task_id, param_name)
    IN IF param # None THEN param.value ELSE None

\* the test for None alone
IsNoneValue(value) == value = None

\* value is None or (isinstance(value, str) and not value.strip())
IsEmptyValue(value) == value = None \/ (IsStr(value) /\ Strip(value.str) = <<>>)

\* the comparison that lets a tie replace the stored value
ExceedsOrEqualsExisting(new_effective, existing_effective) ==
    new_effective >= existing_effective

\* the comparison that lets any other confidence replace the stored value
DiffersFromExisting(new_effective, existing_effective) ==
    new_effective # existing_effective

\* new_effective > existing_effective
ExceedsExisting(new_effective, existing_effective) == new_effective > existing_effective

\* update_parameter: whether the new value is stored
UpdateAccepted(st, task_id, param_name, value, confidence, method) ==
    LET existing == GetParameterRet(st, task_id, param_name)
    IN /\ ~IsEmptyValue(value)
       /\ \/ existing = None
          \/ ExceedsExisting(WeightedConfidence(confidence, method),
                             ParamEffectiveConfidence(existing))

\* update_parameter: was_updated, the first component of what it returns
UpdateParameterRet(st, task_id, param_name, value, confidence, method, source_id) ==
    UpdateAccepted(st, task_id, param_name, value, confidence, method)

\* update_parameter: the store it leaves
StoreUpdateParameter(st, task_id, param_name, value, confidence, method, source_id) ==
    IF IsEmptyValue(value) THEN st
    ELSE LET ofTask == IF HasKey(st, task_id) THEN st[task_id] ELSE <<>>
         IN IF UpdateAccepted(st, task_id, param_name, value, confidence, method)
            THEN Put(st, task_id,
                     Put(ofTask, param_name,
                         ParameterValue(value, confidence, method, source_id)))
            ELSE Put(st, task_id, ofTask)

\* a batch that hands every name to update_parameter, tracked or not
RECURSIVE StoreUpdateEveryParameter(_, _, _, _, _, _)
StoreUpdateEveryParameter(st, task_id, params, confidence, method, source_id) ==
    IF params = <<>> THEN st
    ELSE StoreUpdateEveryParameter(
             StoreUpdateParameter(st, task_id, Lower(Head(params)[1]), Head(params)[2],
                                  confidence, method, source_id),
             task_id, Tail(params), confidence, method, source_id)

\* update_parameters_batch: params is the dict's items in order, each <<name, value>>
RECURSIVE StoreUpdateParametersBatch(_, _, _, _, _, _)
StoreUpdateParametersBatch(st, task_id, params, confidence, method, source_id) ==
    IF params = <<>> THEN st
    ELSE LET param_name == Head(params)[1]
             value == Head(params)[2]
             next == IF Lower(param_name) \in TRACKED_PARAMETERS
                     THEN StoreUpdateParameter(st, task_id, Lower(param_name), value,
                                               confidence, method, source_id)
                     ELSE st
         IN StoreUpdateParametersBatch(next, task_id, Tail(params), confidence, method,
                                       source_id)

\* update_parameters_batch: what it returns, name -> was_updated
RECURSIVE UpdateParametersBatchRet(_, _, _, _, _, _)
UpdateParametersBatchRet(st, task_id, params, confidence, method, source_id) ==
    IF params = <<>> THEN <<>>
    ELSE LET front == SubSeq(params, 1, Len(params) - 1)
             param_name == params[Len(params)][1]
             value == params[Len(params)][2]
             before == StoreUpdateParametersBatch(st, task_id, front, confidence,
                                                  method, source_id)
             results == UpdateParametersBatchRet(st, task_id, front, confidence,
                                                 method, source_id)
         IN IF Lower(param_name) \in TRACKED_PARAMETERS
            THEN Put(results, param_name,
                     UpdateParameterRet(before, task_id, Lower(param_name), value,
                                        confidence, method, source_id))
            ELSE results

\* get_all_parameters
GetAllParametersRet(st, task_id) ==
    IF ~HasKey(st, task_id) THEN <<>>
    ELSE [param_name \in DOMAIN st[task_id] |-> st[task_id][param_name].value]

\* get_all_with_confidence
GetAllWithConfidenceRet(st, task_id) ==
    IF ~HasKey(st, task_id) THEN <<>>
    ELSE [param_name \in DOMAIN st[task_id] |->
             [value |-> st[task_id][param_name].value,
              confidence |-> Round2(ParamEffectiveConfidence(st[task_id][param_name])),
              method |-> st[task_id][param_name].method,
              source |-> st[task_id][param_name].source_id]]

\* PanelParameterStore.clear_task: the store it leaves
StoreClearTask(st, task_id) == IF HasKey(st, task_id) THEN Del(st, task_id) ELSE st

-----------------------------------------------------------------------------
(* The state and what the model holds of it *)

TheService == Service(observations, cache)

RECURSIVE SumOver(_, _)
SumOver(f, keys) ==
    IF keys = {} THEN 0
    ELSE LET k == CHOOSE x \in keys : TRUE IN f[k] + SumOver(f, keys \ {k})

\* the observations held, over all tasks and circuits
TotalObservations(obs) ==
    SumOver([t \in DOMAIN obs |->
                SumOver([c \in DOMAIN obs[t] |-> Len(obs[t][c])], DOMAIN obs[t])],
            DOMAIN obs)

\* the parameters stored, over all tasks
TotalParameters(st) == SumOver([t \in DOMAIN st |-> Cardinality(DOMAIN st[t])], DOMAIN st)

WithinBounds(obs, st) ==
    /\ TotalObservations(obs) + TotalParameters(st) <= MaxEntries
    /\ TotalParameters(st) <= MaxParams

-----------------------------------------------------------------------------
(* The operations of the service *)

\* add_observation(task_id, circuit_num, ...)
AddObservation(task_id, circuit_num, a) ==
    \E S \in {ServiceAddObservation(TheService, task_id, circuit_num, a)} :
        /\ WithinBounds(S.observations, store)
        /\ observations' = S.observations
        /\ cache' = S.cache
        /\ added' = [added EXCEPT ![task_id] = @ + 1]
        /\ UNCHANGED <<store, fobs, fres, threads>>

\* add_observations_from_ocr_result(task_id, source_id, circuits, method, visual_breakers)
AddObservationsFromOcr(task_id, source_id, circuits, method, visual_breakers) ==
    \E S \in {AddObservationsFromOcrResult(TheService, task_id, source_id, circuits,
                                         method, visual_breakers).service} :
        /\ WithinBounds(S.observations, store)
        /\ observations' = S.observations
        /\ cache' = S.cache
        /\ added' = [added EXCEPT ![task_id] = @ + AddCalls(circuits, visual_breakers)]
        /\ UNCHANGED <<store, fobs, fres, threads>>

\* get_resolved_circuit(task_id, circuit_num)
GetResolvedCircuit(task_id, circuit_num) ==
    \E S \in {ServiceGetResolvedCircuit(TheService, task_id, circuit_num)} :
        /\ WithinBounds(S.observations, store)
        /\ observations' = S.observations
        /\ cache' = S.cache
        /\ UNCHANGED <<store, fobs, fres, threads, added>>

\* get_all_resolved_circuits(task_id)
GetAllResolvedCircuits(task_id) ==
    \E S \in {ServiceGetAllResolvedCircuits(TheService, task_id)} :
        /\ WithinBounds(S.observations, store)
        /\ observations' = S.observations
        /\ cache' = S.cache
        /\ UNCHANGED <<store, fobs, fres, threads, added>>

\* get_aggregation_summary(task_id)
GetAggregationSummary(task_id) ==
    \E S \in {ServiceGetAggregationSummary(TheService, task_id)} :
        /\ WithinBounds(S.observations, store)
        /\ observations' = S.observations
        /\ cache' = S.cache
        /\ UNCHANGED <<store, fobs, fres, threads, added>>

\* CircuitAggregationService.clear_task(task_id)
ClearTask(task_id) ==
    \E S \in {ServiceClearTask(TheService, task_id)} :
        /\ WithinBounds(S.observations, store)
        /\ observations' = S.observations
        /\ cache' = S.cache
        /\ added' = [added EXCEPT ![task_id] = 0]
        /\ UNCHANGED <<store, fobs, fres, threads>>

-----------------------------------------------------------------------------
(* The operations of the parameter store *)

\* update_parameter(task_id, param_name, value, confidence, method, source_id)
UpdateParameter(task_id, param_name, value, confidence, method, source_id) ==
    \E st \in {StoreUpdateParameter(store, task_id, param_name, value, confidence,
                                   method, source_id)} :
        /\ WithinBounds(observations, st)
        /\ store' = st
        /\ UNCHANGED <<observations, cache, fobs, fres, threads, added>>

\* update_parameters_batch(task_id, params, confidence, method, source_id)
UpdateParametersBatch(task_id, params, confidence, method, source_id) ==
    \E st \in {StoreUpdateParametersBatch(store, task_id, params, confidence, method,
                                         source_id)} :
        /\ WithinBounds(observations, st)
        /\ store' = st
        /\ UNCHANGED <<observations, cache, fobs, fres, threads, added>>

\* get_parameter, get_value, get_all_parameters, get_all_with_confidence: they only read
ReadParameters(task_id) == UNCHANGED vars

\* PanelParameterStore.clear_task(task_id)
ParamClearTask(task_id) ==
    \E st \in {StoreClearTask(store, task_id)} :
        /\ WithinBounds(observations, st)
        /\ store' = st
        /\ UNCHANGED <<observations, cache, fobs, fres, threads, added>>

-----------------------------------------------------------------------------
(* The inputs the specifications draw *)

Tasks == {"t1", "t2"}

\* the circuit numbers add_observation is called with; 0 is no circuit position
CircuitNums == {0, 1, 2}

DescAb == Str(<<"A", "b">>)
DescAbBlank == Str(<<" ", "a", "b">>)
LoadLtg == Str(<<"L", "T", "G">>)

\* the keyword arguments add_observation is called with
ObservationInputs ==
    {ObservationArgs("photo1", TEXT_OCR, None, 8000, Num(20), 9000, None, 8000,
                     None, 8000, None, 8000),
     ObservationArgs("photo2", AI_VISION, DescAb, 8000, Num(30), 9000, None, 8000,
                     None, 8000, None, 8000),
     ObservationArgs("manual", MANUAL, DescAbBlank, 8000, None, 8000, None, 8000,
                     Num(5), 8000, None, 8000),
     ObservationArgs("photo3", AI_OCR_FALLBACK, None, 8000, None, 8000, None, 8000,
                     Num(7), 8000, LoadLtg, 8000),
     ObservationArgs("photo2", AI_VISION, None, 8000, Num(20), 9500, None, 8000,
                     None, 8000, None, 8000)}

\* entries of `circuits`
OcrCircuit1 ==
    OcrCircuit(Str(<<"1">>), DescAb, Str(<<"2", "0">>), Num(1), Absent, Num(9000), Absent)
OcrCircuit1Again ==
    OcrCircuit(Num(1), DescAbBlank, Num(30), MISSING, LoadLtg, Absent, Bool(TRUE))
OcrCircuit2Empty ==
    OcrCircuit(Str(<<"2">>), MISSING, Str(<<"2", "x">>), MISSING, Absent, Absent, Absent)
OcrCircuitBadNumber ==
    OcrCircuit(Str(<<"x">>), DescAb, Num(20), Absent, Absent, Absent, Absent)
OcrCircuit0 ==
    OcrCircuit(Str(<<"0">>), DescAb, Num(20), Absent, Absent, Absent, Absent)

\* values of visual_breakers
VisualFailed ==
    [ai_vision_success |-> Bool(FALSE),
     breakers |-> <<VisualBreaker(<<1>>, Num(1), Num(20), DescAb, Absent)>>]
VisualTwoPole ==
    [ai_vision_success |-> Bool(TRUE),
     breakers |-> <<VisualBreaker(<<1, 2>>, Num(2), Num(30), Absent, LoadLtg)>>]

\* a breaker group that names a circuit and nothing else
VisualBare ==
    [ai_vision_success |-> Bool(TRUE),
     breakers |-> <<VisualBreaker(<<2>>, Absent, Absent, Absent, Absent)>>]

\* the (circuits, visual_breakers) add_observations_from_ocr_result is called with
OcrCallInputs ==
    {<< <<OcrCircuit1>>, None >>,
     << <<OcrCircuit1, OcrCircuit1Again>>, None >>,
     << <<OcrCircuit1, OcrCircuitBadNumber, OcrCircuit1Again>>, None >>,
     << <<OcrCircuit2Empty, OcrCircuit0>>, VisualTwoPole >>,
     << <<OcrCircuit0>>, VisualFailed >>,
     << <<OcrCircuitBadNumber>>, VisualTwoPole >>,
     << <<>>, VisualBare >>}

Voltage == <<"v", "o", "l", "t", "a", "g", "e">>
Phase == <<"p", "h", "a", "s", "e">>
Bogus == <<"b", "o", "g", "u", "s">>
V480 == Str(<<"4", "8", "0">>)
V208 == Str(<<"2", "0", "8">>)
Blank == Str(<<" ">>)

\* the arguments update_parameter is called with
ParamNames == {Voltage, Phase}
ParamValues == {V480, V208, Blank, None}
ParamConfs == {6000, 7000}
ParamMethods == {MANUAL, AI_VISION, TEXT_OCR}
\* the source id that goes with a method
ParamSource(method) == IF method = MANUAL THEN "manual" ELSE "photo1"

\* the dicts update_parameters_batch is called with, as their items in order
BatchInputs ==
    {<< <<<<"V", "o", "l", "t", "a", "g", "e">>, V480>>, <<Bogus, V208>> >>,
     << <<Phase, Blank>>, <<Voltage, V208>> >>}

-----------------------------------------------------------------------------
(* Calls that run in threads of their own.  The service holds no lock, so a *)
(* thread may be preempted between any two statements of a call.  A step    *)
(* here is a run of statements of one call; the tests of lines 177-181,     *)
(* 203-205 and 420-422 are taken in one step with the assignments they      *)
(* guard.  The local `observations` of get_resolved_circuit is a reference  *)
(* to the list the store holds, so each comprehension reads the list as it  *)
(* is when the comprehension runs.                                          *)

\* the (task, circuit) the concurrent calls are about
ThreadTask == "t1"
ThreadCircuit == 1

\* the threads that call add_observation, and those that call get_resolved_circuit
Writers == {"w1", "w2"}
Readers == {"r1", "r2"}

\* the keyword arguments of the add_observation call of thread w
WriterArgs(w) ==
    ObservationArgs(w, TEXT_OCR, None, 8000, Num(20), 9000, None, 8000,
                    None, 8000, None, 8000)

\* a thread: the line its call stands at, the add_observation calls that had returned
\* when its call began, the local variables of get_resolved_circuit, what was returned
Thread(pc, returned, description, breaker_amps, poles, load_amps, load_type, ret) ==
    [pc |-> pc, returned |-> returned, description |-> description,
     breaker_amps |-> breaker_amps, poles |-> poles, load_amps |-> load_amps,
     load_type |-> load_type, ret |-> ret]

\* a thread that has not made its call yet
NotCalled == Thread("idle", {}, None, None, None, None, None, None)

\* the thread x at line pc, its local variables as they are
At(x, pc) == [threads EXCEPT ![x].pc = pc]

\* the list get_resolved_circuit holds in `observations`
ThreadObservations == ObservationsOf(TheService, ThreadTask, ThreadCircuit)

\* thread w calls add_observation
CallAddObservation(w) ==
    /\ threads[w].pc = "idle"
    /\ threads' = At(w, "l177")
    /\ UNCHANGED <<observations, cache, store, fobs, fres, added>>

\* lines 177-181: the dict of the task and the list of the circuit, where missing
AddObservationCreate(w) ==
    /\ threads[w].pc = "l177"
    /\ observations' =
           Put(observations, ThreadTask,
               Put(IF HasKey(observations, ThreadTask)
                   THEN observations[ThreadTask] ELSE <<>>,
                   ThreadCircuit, ThreadObservations))
    /\ threads' = At(w, "l183")
    /\ UNCHANGED <<cache, store, fobs, fres, added>>

\* lines 183-200: the observation is built and appended
AddObservationAppend(w) ==
    /\ threads[w].pc = "l183"
    /\ observations' =
           [observations EXCEPT ![ThreadTask][ThreadCircuit] =
               AppendObservation(@, CircuitObservation(ThreadCircuit, WriterArgs(w)))]
    /\ threads' = At(w, "l203")
    /\ added' = [added EXCEPT ![ThreadTask] = @ + 1]
    /\ UNCHANGED <<cache, store, fobs, fres>>

\* lines 203-207: the cache entry is dropped and the call returns
AddObservationInvalidate(w) ==
    /\ threads[w].pc = "l203"
    /\ cache' = InvalidateCache(cache, ThreadTask, ThreadCircuit)
    /\ threads' = At(w, "done")
    /\ UNCHANGED <<observations, store, fobs, fres, added>>

\* thread r calls get_resolved_circuit
CallGetResolvedCircuit(r) ==
    /\ threads[r].pc = "idle"
    /\ threads' = [threads EXCEPT ![r].pc = "l364",
                                  ![r].returned = {w \in Writers : threads[w].pc = "done"}]
    /\ UNCHANGED <<observations, cache, store, fobs, fres, added>>

\* lines 364-368: None for a task or a circuit the store does not hold
GetResolvedCircuitLookup(r) ==
    /\ threads[r].pc = "l364"
    /\ threads' = IF HasKey(observations, ThreadTask)
                     /\ HasKey(observations[ThreadTask], ThreadCircuit)
                  THEN At(r, "l371")
                  ELSE At(r, "done")
    /\ UNCHANGED <<observations, cache, store, fobs, fres, added>>

\* lines 371-375: the cached entry is returned, or `observations` is bound
GetResolvedCircuitCheckCache(r) ==
    /\ threads[r].pc = "l371"
    /\ threads' = IF IsCached(TheService, ThreadTask, ThreadCircuit)
                  THEN [threads EXCEPT ![r].pc = "done",
                                       ![r].ret = cache[ThreadTask][ThreadCircuit]]
                  ELSE At(r, "l378")
    /\ UNCHANGED <<observations, cache, store, fobs, fres, added>>

\* lines 378-381
GetResolvedCircuitDescription(r) ==
    /\ threads[r].pc = "l378"
    /\ threads' = [threads EXCEPT ![r].pc = "l383",
                       ![r].description = ResolveField(DescriptionTuples(ThreadObservations))]
    /\ UNCHANGED <<observations, cache, store, fobs, fres, added>>

\* lines 383-386
GetResolvedCircuitBreakerAmps(r) ==
    /\ threads[r].pc = "l383"
    /\ threads' = [threads EXCEPT ![r].pc = "l388",
                       ![r].breaker_amps = ResolveField(BreakerAmpsTuples(ThreadObservations))]
    /\ UNCHANGED <<observations, cache, store, fobs, fres, added>>

\* lines 388-391
GetResolvedCircuitPoles(r) ==
    /\ threads[r].pc = "l388"
    /\ threads' = [threads EXCEPT ![r].pc = "l393",
                       ![r].poles = ResolveField(PolesTuples(ThreadObservations))]
    /\ UNCHANGED <<observations, cache, store, fobs, fres, added>>

\* lines 393-396
GetResolvedCircuitLoadAmps(r) ==
    /\ threads[r].pc = "l393"
    /\ threads' = [threads EXCEPT ![r].pc = "l398",
                       ![r].load_amps = ResolveField(LoadAmpsTuples(ThreadObservations))]
    /\ UNCHANGED <<observations, cache, store, fobs, fres, added>>

\* lines 398-401
GetResolvedCircuitLoadType(r) ==
    /\ threads[r].pc = "l398"
    /\ threads' = [threads EXCEPT ![r].pc = "l403",
                       ![r].load_type = ResolveField(LoadTypeTuples(ThreadObservations))]
    /\ UNCHANGED <<observations, cache, store, fobs, fres, added>>

\* lines 403-417: `resolved` is built, with len(observations) as it is now
GetResolvedCircuitBuild(r) ==
    /\ threads[r].pc = "l403"
    /\ threads' = [threads EXCEPT ![r].pc = "l420",
                       ![r].ret = ResolvedCircuit(ThreadCircuit,
                                      threads[r].description, threads[r].breaker_amps,
                                      threads[r].poles, threads[r].load_amps,
                                      threads[r].load_type, Len(ThreadObservations))]
    /\ UNCHANGED <<observations, cache, store, fobs, fres, added>>

\* lines 420-424: `resolved` is cached and returned
GetResolvedCircuitCache(r) ==
    /\ threads[r].pc = "l420"
    /\ cache' = CacheResult(cache, ThreadTask, ThreadCircuit, threads[r].ret)
    /\ threads' = At(r, "done")
    /\ UNCHANGED <<observations, store, fobs, fres, added>>

\* the calls of the threads, interleaved
NextThreads ==
    \/ \E w \in Writers : CallAddObservation(w)
    \/ \E w \in Writers : AddObservationCreate(w)
    \/ \E w \in Writers : AddObservationAppend(w)
    \/ \E w \in Writers : AddObservationInvalidate(w)
    \/ \E r \in Readers : CallGetResolvedCircuit(r)
    \/ \E r \in Readers : GetResolvedCircuitLookup(r)
    \/ \E r \in Readers : GetResolvedCircuitCheckCache(r)
    \/ \E r \in Readers : GetResolvedCircuitDescription(r)
    \/ \E r \in Readers : GetResolvedCircuitBreakerAmps(r)
    \/ \E r \in Readers : GetResolvedCircuitPoles(r)
    \/ \E r \in Readers : GetResolvedCircuitLoadAmps(r)
    \/ \E r \in Readers : GetResolvedCircuitLoadType(r)
    \/ \E r \in Readers : GetResolvedCircuitBuild(r)
    \/ \E r \in Readers : GetResolvedCircuitCache(r)

-----------------------------------------------------------------------------
(* The specifications *)

Init ==
    /\ observations = <<>>
    /\ cache = <<>>
    /\ store = <<>>
    /\ fobs = <<>>
    /\ fres = ResolveField(<<>>)
    /\ threads = [x \in Writers \cup Readers |-> NotCalled]
    /\ added = [t \in Tasks |-> 0]

\* the service and the parameter store, called in any order
Next ==
    \/ \E t \in Tasks, c \in CircuitNums, a \in ObservationInputs :
           AddObservation(t, c, a)
    \/ \E t \in Tasks, call \in OcrCallInputs :
           AddObservationsFromOcr(t, "photo1", call[1], TEXT_OCR, call[2])
    \/ \E t \in Tasks, c \in CircuitNums : GetResolvedCircuit(t, c)
    \/ \E t \in Tasks : GetAllResolvedCircuits(t)
    \/ \E t \in Tasks : GetAggregationSummary(t)
    \/ \E t \in Tasks : ClearTask(t)
    \/ \E t \in Tasks, m \in {MANUAL, TEXT_OCR} :
           UpdateParameter(t, Voltage, V480, 7000, m, ParamSource(m))
    \/ \E t \in Tasks : ReadParameters(t)
    \/ \E t \in Tasks : ParamClearTask(t)

Spec == Init /\ [][Next]_vars

\* the parameter store alone
NextParam ==
    \/ \E t \in Tasks, n \in ParamNames, v \in ParamValues, c \in ParamConfs,
          m \in ParamMethods :
           UpdateParameter(t, n, v, c, m, ParamSource(m))
    \/ \E t \in Tasks, params \in BatchInputs, m \in ParamMethods :
           UpdateParametersBatch(t, params, 7000, m, ParamSource(m))
    \/ \E t \in Tasks : ReadParameters(t)
    \/ \E t \in Tasks : ParamClearTask(t)

SpecParam == Init /\ [][NextParam]_vars

-----------------------------------------------------------------------------
(* The resolver driven directly *)

FieldValues == {Num(20), Num(30), Num(40)}
FieldConfs == {1, 1236, 4000, 9000}
FieldSources == {"photo1"}

FieldInputs ==
    {FieldTuple(v, c, s, m) :
        v \in FieldValues, c \in FieldConfs, s \in FieldSources, m \in ExtractionMethod}

\* one more tuple reaches the field, and the field is resolved
ResolveOneMore(o) ==
    /\ Len(fobs) < MaxFieldObs
    /\ fobs' = Append(fobs, o)
    /\ fres' = ResolveField(fobs')
    /\ UNCHANGED <<observations, cache, store, threads, added>>

\* the resolver alone
NextField == \E o \in FieldInputs : ResolveOneMore(o)

SpecField == Init /\ [][NextField]_vars

\* tuples that agree up to case and blanks, and one that does not
AgreeValues == {DescAb, DescAbBlank, Num(30)}
AgreeConfs == {1, 9000}
AgreeMethods == {AI_VISION, TEXT_OCR}

AgreeInputs ==
    {FieldTuple(v, c, s, m) :
        v \in AgreeValues, c \in AgreeConfs, s \in FieldSources, m \in AgreeMethods}

\* one more tuple reaches a field that is resolved again
Corroborate(o) ==
    /\ Len(fobs) < MaxAgreeObs
    /\ fobs' = Append(fobs, o)
    /\ fres' = ResolveField(fobs')
    /\ UNCHANGED <<observations, cache, store, threads, added>>

\* the resolver under repeated observations of few values
NextAgree == \E o \in AgreeInputs : Corroborate(o)

SpecAgree == Init /\ [][NextAgree]_vars

\* tuples whose confidences lie close to each other and to the bar of 0.3
CloseInputs ==
    {FieldTuple(v, c, "photo1", m) :
        v \in {Num(20), Num(30)}, c \in {1236, 3000, 3051, 3052, 9000},
        m \in {AI_VISION, TEXT_OCR}}

\* the resolver under confidences that lie close together
NextClose == \E o \in CloseInputs : ResolveOneMore(o)

SpecClose == Init /\ [][NextClose]_vars

\* observations of two values whose complements multiply to a product that lies
\* on the boundary between two roundings to 3 decimals:
\* 0.3125 * 0.625 * 0.75 * 0.8192 * 0.9125 = 0.1095
OrderInputs ==
    {FieldTuple(v, c, "photo1", AI_VISION) :
        v \in {Num(20), Num(30)}, c \in {6875, 3750, 2500, 1808, 875}}

\* one more tuple arrives at the field, and the field is resolved
Arrive(o) ==
    /\ Len(fobs) < MaxOrderObs
    /\ fobs' = Append(fobs, o)
    /\ fres' = ResolveField(fobs')
    /\ UNCHANGED <<observations, cache, store, threads, added>>

\* the resolver under observations that arrive in every order
NextOrder == \E o \in OrderInputs : Arrive(o)

SpecOrder == Init /\ [][NextOrder]_vars

\* the concurrent calls alone
SpecThreads == Init /\ [][NextThreads]_vars

-----------------------------------------------------------------------------
(* Properties of the service and the stores (specification Spec) *)

\* C1: every entry of the resolution cache is the resolution of the complete
\* observation list its (task, circuit) has now, so that get_resolved_circuit
\* reflects every observation added so far and its observations_count is the
\* length of that list
CacheConsistency ==
    /\ \A t \in DOMAIN cache : \A c \in DOMAIN cache[t] :
           /\ HasKey(observations, t)
           /\ HasKey(observations[t], c)
           /\ cache[t][c] = ResolveCircuit(c, observations[t][c])
    /\ \A t \in DOMAIN observations : \A c \in DOMAIN observations[t] :
           /\ GetResolvedCircuitRet(TheService, t, c)
                  = ResolveCircuit(c, observations[t][c])
           /\ GetResolvedCircuitRet(TheService, t, c).observations_count
                  = Len(observations[t][c])

\* a circuit resolved again after its second observation
CacheHoldsLaterResolution ==
    \E t \in DOMAIN cache : \E c \in DOMAIN cache[t] :
        /\ Len(observations[t][c]) = 2
        /\ cache[t][c].observations_count = 2

\* C2: add_observation(t, c, ...) adds no cache entry and removes none but that of
\* (t, c); for every other circuit the cache entry and what get_resolved_circuit
\* returns are the same before and after
CacheLocality ==
    \A t \in Tasks, c \in CircuitNums, a \in ObservationInputs :
        LET after == ServiceAddObservation(TheService, t, c, a)
        IN \A t2 \in Tasks, c2 \in CircuitNums :
               /\ IsCached(after, t2, c2) =>
                      /\ IsCached(TheService, t2, c2)
                      /\ after.cache[t2][c2] = cache[t2][c2]
               /\ (t2 # t \/ c2 # c) =>
                      /\ IsCached(TheService, t2, c2) => IsCached(after, t2, c2)
                      /\ GetResolvedCircuitRet(after, t2, c2)
                             = GetResolvedCircuitRet(TheService, t2, c2)

\* a cached circuit beside a circuit of the same task that holds observations and
\* no cache entry
CachedBesideUncached ==
    \E t \in DOMAIN cache : \E c2 \in DOMAIN cache[t] :
        \E c \in DOMAIN observations[t] : c # c2 /\ ~HasKey(cache[t], c)

IsPrefix(s, t) == Len(s) <= Len(t) /\ SubSeq(t, 1, Len(s)) = s
Front(s) == SubSeq(s, 1, Len(s) - 1)
Last(s) == s[Len(s)]

\* C3: in every step but clear_task of the task, each observation list is a prefix
\* of the list the step leaves; add_observation leaves the list of its (task,
\* circuit) with exactly its observation appended and every other list as it was
AppendOnly ==
    [][/\ \A t \in DOMAIN observations :
              \/ ClearTask(t)
              \/ /\ HasKey(observations', t)
                 /\ \A c \in DOMAIN observations[t] :
                        /\ HasKey(observations'[t], c)
                        /\ IsPrefix(observations[t][c], observations'[t][c])
       /\ \A t \in Tasks, c \in CircuitNums, a \in ObservationInputs :
              AddObservation(t, c, a) =>
                  \A t2 \in Tasks, c2 \in CircuitNums :
                      ObservationsOf(Service(observations', cache'), t2, c2)
                          = IF t2 = t /\ c2 = c
                            THEN Append(ObservationsOf(TheService, t, c),
                                        CircuitObservation(c, a))
                            ELSE ObservationsOf(TheService, t2, c2)
      ]_vars

\* a list that holds two different observations
TwoObservationsInOrder ==
    \E t \in DOMAIN observations : \E c \in DOMAIN observations[t] :
        /\ Len(observations[t][c]) = 2
        /\ observations[t][c][1] # observations[t][c][2]

\* C4: no circuit with a non-positive number ever appears in the store (what
\* add_observation would guarantee if it rejected circuit_number <= 0)
NoNonPositiveCircuit ==
    \A t \in DOMAIN observations : \A c \in DOMAIN observations[t] : c > 0

\* the summary of a task that holds nothing
EmptySummary ==
    [total_circuits |-> 0, total_observations |-> 0,
     circuits_with_conflicts |-> 0, average_confidence |-> 0, sources |-> {}]

\* C10: clear_task(t) never fails; on a task without data it leaves both stores as
\* they are; after it every getter for t returns empty and leaves the stores empty
\* of t, and a second clear_task(t) changes nothing
IdempotentClear ==
    \A t \in Tasks :
        LET S == ServiceClearTask(TheService, t)
            st == StoreClearTask(store, t)
        IN /\ ENABLED ClearTask(t)
           /\ ENABLED ParamClearTask(t)
           /\ ~HasKey(observations, t) => S = TheService
           /\ ~HasKey(store, t) => st = store
           /\ ServiceClearTask(S, t) = S
           /\ StoreClearTask(st, t) = st
           /\ \A c \in CircuitNums :
                  /\ GetResolvedCircuitRet(S, t, c) = None
                  /\ ServiceGetResolvedCircuit(S, t, c) = S
           /\ GetAllResolvedCircuitsRet(S, t) = <<>>
           /\ ServiceGetAllResolvedCircuits(S, t) = S
           /\ GetAggregationSummaryRet(S, t) = EmptySummary
           /\ ServiceGetAggregationSummary(S, t) = S
           /\ GetAllParametersRet(st, t) = <<>>
           /\ GetAllWithConfidenceRet(st, t) = <<>>
           /\ \A n \in ParamNames :
                  GetParameterRet(st, t, n) = None /\ GetValueRet(st, t, n) = None

\* a task that holds observations, a resolution and a parameter for clear_task to
\* remove
TaskHoldsEverything ==
    \E t \in Tasks : HasKey(observations, t) /\ HasKey(cache, t) /\ HasKey(store, t)

\* C12: a circuit whose breaker_amps observations are 20 from TEXT_OCR at 0.9 and
\* then 20 from AI_VISION at 0.95, from two sources, resolves breaker_amps to 20
\* with confidence 0.94, both sources in arrival order, and no conflict
FusionScenario ==
    \A t \in DOMAIN observations : \A c \in DOMAIN observations[t] :
        BreakerAmpsTuples(observations[t][c])
            = <<FieldTuple(Num(20), 9000, "photo1", TEXT_OCR),
                FieldTuple(Num(20), 9500, "photo2", AI_VISION)>>
        => /\ GetResolvedCircuitRet(TheService, t, c).breaker_amps.value = Num(20)
           /\ GetResolvedCircuitRet(TheService, t, c).breaker_amps.confidence = 9400
           /\ GetResolvedCircuitRet(TheService, t, c).breaker_amps.sources
                  = <<"photo1", "photo2">>
           /\ ~GetResolvedCircuitRet(TheService, t, c).breaker_amps.has_conflict

\* the two observations of the scenario were added and the circuit was resolved
FusionScenarioResolved ==
    \E t \in DOMAIN cache : \E c \in DOMAIN cache[t] :
        /\ Len(observations[t][c]) = 2
        /\ observations[t][c][1].method = TEXT_OCR
        /\ observations[t][c][1].amps_confidence = 9000
        /\ observations[t][c][2].method = AI_VISION
        /\ observations[t][c][2].amps_confidence = 9500
        /\ cache[t][c].breaker_amps.confidence = 9400

\* C14: the needs_review of every resolved circuit is true if and only if one of its
\* five resolved fields (description, breaker_amps, poles, load_amps, load_type) has
\* a conflict
ReviewOfFiveFields ==
    \A t \in DOMAIN observations : \A c \in DOMAIN observations[t] :
        LET rc == GetResolvedCircuitRet(TheService, t, c)
        IN rc.needs_review <=> \/ rc.description.has_conflict
                               \/ rc.breaker_amps.has_conflict
                               \/ rc.poles.has_conflict
                               \/ rc.load_amps.has_conflict
                               \/ rc.load_type.has_conflict

\* the elements of a list
Elements(s) == {s[i] : i \in 1..Len(s)}

\* C20: the sources of get_aggregation_summary(task) are the union, over the circuits
\* of the task and their five resolved fields, of the sources of each field's value;
\* a source that gave only a load_type or a load_amps value is among them
SummarySourcesOfFiveFields ==
    \A t \in DOMAIN observations :
        GetAggregationSummaryRet(TheService, t).sources
            = UNION {LET rc == GetResolvedCircuitRet(TheService, t, c)
                     IN Elements(rc.description.sources)
                        \cup Elements(rc.breaker_amps.sources)
                        \cup Elements(rc.poles.sources)
                        \cup Elements(rc.load_amps.sources)
                        \cup Elements(rc.load_type.sources)
                     : c \in DOMAIN observations[t]}

\* the number of a circuit entry is one int() accepts
WellNumbered(circuit) == PyInt(DictGet(circuit.number, Num(0))).ok

\* C15: add_observations_from_ocr_result raises for no batch, and an entry whose
\* number is no valid number is passed over: the call leaves the service and
\* returns the notifications it would for the batch without such entries
MalformedNeverAborts ==
    \A t \in Tasks, call \in OcrCallInputs :
        LET whole == AddObservationsFromOcrResult(TheService, t, "photo1", call[1],
                                                  TEXT_OCR, call[2])
            others == AddObservationsFromOcrResult(TheService, t, "photo1",
                                                   SelectSeq(call[1], WellNumbered),
                                                   TEXT_OCR, call[2])
        IN /\ ~whole.raised
           /\ whole.service = others.service
           /\ whole.notifications = others.notifications

\* the resolved values a notification reports: poles, breaker_amps, description and
\* load_type, each None for a circuit that holds no observation
ReportedValues(rc) ==
    IF rc = None THEN <<None, None, None, None>>
    ELSE <<rc.poles.value, rc.breaker_amps.value, rc.description.value,
           rc.load_type.value>>

\* C16: an entry of a batch whose ingestion leaves the resolved poles, breaker_amps,
\* description and load_type of its circuit as they were before the entry adds no
\* notification, whatever it does to the confidences and the observation count
NoNotificationSpam ==
    \A t \in Tasks, call \in OcrCallInputs : \A i \in 1..Len(call[1]) :
        LET before == IngestCircuits(TheService, t, "photo1", TEXT_OCR,
                                     SubSeq(call[1], 1, i - 1))
            entry == IngestCircuit(before.service, t, "photo1", TEXT_OCR, call[1][i])
            number == PyInt(DictGet(call[1][i].number, Num(0)))
        IN (~before.raised /\ number.ok) =>
               (ReportedValues(GetResolvedCircuitRet(entry.service, t, number.val))
                    = ReportedValues(GetResolvedCircuitRet(before.service, t, number.val))
                => entry.notifications = <<>>)

\* a circuit whose second observation came from a batch and confirmed the first: the
\* values stayed, the confidence of breaker_amps rose, and nothing was notified
ConfirmingEntryIngested ==
    \E t \in DOMAIN observations :
        /\ HasKey(observations[t], 1)
        /\ Len(observations[t][1]) = 2
        /\ observations[t][1][2].source_id = "photo1"
        /\ observations[t][1][2].description = DescAb
        /\ LET existing == ResolveCircuit(1, Front(observations[t][1]))
               new_resolved == ResolveCircuit(1, observations[t][1])
           IN /\ ReportedValues(existing) = ReportedValues(new_resolved)
              /\ existing.breaker_amps.confidence < new_resolved.breaker_amps.confidence
              /\ Notifications(1, existing, new_resolved, TEXT_OCR) = <<>>

\* the circuits a service holds for a task
CircuitsOf(S, task_id) ==
    IF HasKey(S.observations, task_id) THEN DOMAIN S.observations[task_id] ELSE {}

\* C17: a call of add_observations_from_ocr_result that returns gives exactly one
\* notification for every circuit whose resolved poles, breaker_amps, description or
\* load_type is not what it was before the call: BREAKER INFO FOUND for a circuit
\* that held no observation before the call, BREAKER INFO UPDATED otherwise
NotificationCompleteness ==
    \A t \in Tasks, call \in OcrCallInputs :
        LET r == AddObservationsFromOcrResult(TheService, t, "photo1", call[1],
                                              TEXT_OCR, call[2])
        IN ~r.raised =>
               \A c \in CircuitsOf(r.service, t) :
                   ReportedValues(GetResolvedCircuitRet(r.service, t, c))
                       # ReportedValues(GetResolvedCircuitRet(TheService, t, c))
                   => /\ Cardinality({i \in 1..Len(r.notifications) :
                                         r.notifications[i].circuit_num = c}) = 1
                      /\ \A i \in 1..Len(r.notifications) :
                             r.notifications[i].circuit_num = c =>
                                 r.notifications[i].kind
                                     = IF ObservationsOf(TheService, t, c) = <<>>
                                       THEN "BREAKER INFO FOUND"
                                       ELSE "BREAKER INFO UPDATED"

\* C18: get_resolved_circuit for a task or a circuit the store does not hold returns
\* None, get_all_resolved_circuits for an unknown task returns {} and
\* get_aggregation_summary returns zero counts and no source; each returns, and
\* none adds a task or a circuit to the observations or the cache
MissingReadsCreateNothing ==
    /\ \A t \in Tasks, c \in CircuitNums :
           /\ ServiceGetResolvedCircuit(TheService, t, c).observations = observations
           /\ ~(HasKey(observations, t) /\ HasKey(observations[t], c)) =>
                  /\ GetResolvedCircuitRet(TheService, t, c) = None
                  /\ ServiceGetResolvedCircuit(TheService, t, c) = TheService
    /\ \A t \in Tasks :
           /\ ServiceGetAllResolvedCircuits(TheService, t).observations = observations
           /\ ServiceGetAggregationSummary(TheService, t).observations = observations
           /\ ~HasKey(observations, t) =>
                  /\ GetAllResolvedCircuitsRet(TheService, t) = <<>>
                  /\ ServiceGetAllResolvedCircuits(TheService, t) = TheService
                  /\ GetAggregationSummaryRet(TheService, t) = EmptySummary
                  /\ ServiceGetAggregationSummary(TheService, t) = TheService

\* a task with a cached circuit and a circuit it does not hold, beside a task the
\* service does not hold
KnownBesideUnknown ==
    \E t \in Tasks, t2 \in Tasks, c \in CircuitNums, c2 \in CircuitNums :
        /\ IsCached(TheService, t, c)
        /\ ~HasKey(observations[t], c2)
        /\ ~HasKey(observations, t2)

\* what the service holds for a task and what its getters return for it
ServiceView(S, t) ==
    [observations |-> IF HasKey(S.observations, t) THEN <<S.observations[t]>> ELSE <<>>,
     cache |-> IF HasKey(S.cache, t) THEN <<S.cache[t]>> ELSE <<>>,
     resolved |-> [c \in CircuitNums |-> GetResolvedCircuitRet(S, t, c)],
     all_resolved |-> GetAllResolvedCircuitsRet(S, t),
     summary |-> GetAggregationSummaryRet(S, t)]

\* what the parameter store holds for a task and what its getters return for it
StoreView(st, t) ==
    [parameters |-> IF HasKey(st, t) THEN <<st[t]>> ELSE <<>>,
     each |-> [n \in ParamNames |-> <<GetParameterRet(st, t, n), GetValueRet(st, t, n)>>],
     all_parameters |-> GetAllParametersRet(st, t),
     all_with_confidence |-> GetAllWithConfidenceRet(st, t)]

\* C19: every operation of the service and of the parameter store called with task
\* t leaves the observations, the cache entries and the parameters of every other
\* task, and what every getter returns for it, as they were
TaskIndependence ==
    \A t \in Tasks : \A t2 \in Tasks \ {t} :
        /\ \A c \in CircuitNums, a \in ObservationInputs :
               ServiceView(ServiceAddObservation(TheService, t, c, a), t2)
                   = ServiceView(TheService, t2)
        /\ \A call \in OcrCallInputs :
               ServiceView(AddObservationsFromOcrResult(TheService, t, "photo1", call[1],
                                                        TEXT_OCR, call[2]).service, t2)
                   = ServiceView(TheService, t2)
        /\ \A c \in CircuitNums :
               ServiceView(ServiceGetResolvedCircuit(TheService, t, c), t2)
                   = ServiceView(TheService, t2)
        /\ ServiceView(ServiceGetAllResolvedCircuits(TheService, t), t2)
               = ServiceView(TheService, t2)
        /\ ServiceView(ServiceGetAggregationSummary(TheService, t), t2)
               = ServiceView(TheService, t2)
        /\ ServiceView(ServiceClearTask(TheService, t), t2) = ServiceView(TheService, t2)
        /\ \A n \in ParamNames, v \in ParamValues, c \in ParamConfs, m \in ParamMethods :
               StoreView(StoreUpdateParameter(store, t, n, v, c, m, ParamSource(m)), t2)
                   = StoreView(store, t2)
        /\ \A params \in BatchInputs, m \in ParamMethods :
               StoreView(StoreUpdateParametersBatch(store, t, params, 7000, m,
                                                    ParamSource(m)), t2)
                   = StoreView(store, t2)
        /\ StoreView(StoreClearTask(store, t), t2) = StoreView(store, t2)

\* a task with a resolved circuit beside a task with a stored parameter
TwoTasksHoldData ==
    \E t \in Tasks : \E t2 \in Tasks \ {t} :
        /\ HasKey(cache, t)
        /\ ~HasKey(store, t)
        /\ HasKey(store, t2)
        /\ ~HasKey(observations, t2)

\* the breaker groups that list the circuit c, once for each time they list it
RECURSIVE GroupsListing(_, _)
GroupsListing(breakers, c) ==
    IF breakers = <<>> THEN <<>>
    ELSE [i \in 1..Len(SelectSeq(Head(breakers).circuits, LAMBDA x : x = c)) |->
             Head(breakers)]
         \o GroupsListing(Tail(breakers), c)

\* the call add_observations_from_ocr_result(t, 'photo1', call[1], TEXT_OCR, call[2])
\* leaves under each circuit what the same call without visual_breakers leaves,
\* followed by one AI_VISION observation with the group's description, amps and
\* poles for each time a group of a successful visual_breakers lists the circuit
VisualPartAdded(t, call) ==
    LET with == AddObservationsFromOcrResult(TheService, t, "photo1", call[1],
                                             TEXT_OCR, call[2]).service
        without == AddObservationsFromOcrResult(TheService, t, "photo1", call[1],
                                                TEXT_OCR, None).service
    IN \A c \in CircuitNums :
           LET before == ObservationsOf(without, t, c)
               after == ObservationsOf(with, t, c)
               groups == IF call[2] # None /\ call[2].ai_vision_success = Bool(TRUE)
                         THEN GroupsListing(call[2].breakers, c)
                         ELSE <<>>
           IN /\ Len(after) = Len(before) + Len(groups)
              /\ IsPrefix(before, after)
              /\ \A i \in 1..Len(groups) :
                     /\ after[Len(before) + i].method = AI_VISION
                     /\ after[Len(before) + i].description
                            = (IF Truthy(DictGet(groups[i].description, None))
                               THEN groups[i].description ELSE None)
                     /\ after[Len(before) + i].breaker_amps = DictGet(groups[i].amps, None)
                     /\ after[Len(before) + i].poles = DictGet(groups[i].poles, None)

\* C25: with a visual_breakers whose ai_vision_success is true, the call appends one
\* AI_VISION observation, carrying the group's description, amps and poles, for
\* each circuit number each breaker group lists; without visual_breakers, or with
\* ai_vision_success false, it appends nothing from it
VisualBreakersAdded ==
    \A t \in Tasks, call \in OcrCallInputs : VisualPartAdded(t, call)

\* an entry of `circuits` without a usable description, breaker_amps, breaker_poles
\* or load_type: each is missing, None, 'MISSING' or invalid
EntryIsBare(circuit) ==
    /\ DictGet(circuit.description, None) \in {None, MISSING}
    /\ CoerceInt(DictGet(circuit.breaker_amps, None)) = None
    /\ CoerceInt(DictGet(circuit.breaker_poles, None)) = None
    /\ CoerceLoadType(DictGet(circuit.load_type, None)) = None

\* a breaker group without a description, amps, poles or a valid load_type
GroupIsBare(breaker) ==
    /\ ~Truthy(DictGet(breaker.description, None))
    /\ DictGet(breaker.amps, None) = None
    /\ DictGet(breaker.poles, None) = None
    /\ \/ ~Truthy(DictGet(breaker.load_type, None))
       \/ NormalizeLoadType(DictGet(breaker.load_type, None)) = None

\* C26: add_observations_from_ocr_result appends no observation whose description,
\* breaker_amps, poles and load_type are all None, and a call whose inputs have no
\* usable field leaves the observations and the cache as they are
NoBareObservation ==
    \A t \in Tasks, call \in OcrCallInputs :
        LET after == AddObservationsFromOcrResult(TheService, t, "photo1", call[1],
                                                  TEXT_OCR, call[2]).service
        IN /\ \A c \in CircuitNums :
                  \A i \in (Len(ObservationsOf(TheService, t, c)) + 1)
                            ..Len(ObservationsOf(after, t, c)) :
                      ~ /\ after.observations[t][c][i].description = None
                        /\ after.observations[t][c][i].breaker_amps = None
                        /\ after.observations[t][c][i].poles = None
                        /\ after.observations[t][c][i].load_type = None
           /\ ( /\ \A i \in 1..Len(call[1]) : EntryIsBare(call[1][i])
                /\ call[2] # None =>
                       \A i \in 1..Len(call[2].breakers) :
                           GroupIsBare(call[2].breakers[i]) )
                  => after = TheService

\* C21: the summary of a task counts the circuit numbers that hold an observation
\* (the keys of get_all_resolved_circuits), the add_observation calls made for the
\* task since its last clear_task, and the circuits whose needs_review is true
SummaryCounts ==
    \A t \in Tasks :
        LET summary == GetAggregationSummaryRet(TheService, t)
            held == {c \in CircuitNums : ObservationsOf(TheService, t, c) # <<>>}
        IN /\ summary.total_circuits = Cardinality(held)
           /\ DOMAIN GetAllResolvedCircuitsRet(TheService, t) = held
           /\ summary.total_observations = added[t]
           /\ summary.circuits_with_conflicts
                  = Cardinality({c \in held :
                                    GetResolvedCircuitRet(TheService, t, c).needs_review})

\* one circuit of a task holds two observations that are in conflict
SummaryCountsConflict ==
    \E t \in Tasks :
        /\ added[t] = 2
        /\ GetAggregationSummaryRet(TheService, t).total_circuits = 1
        /\ GetAggregationSummaryRet(TheService, t).circuits_with_conflicts = 1

-----------------------------------------------------------------------------
(* Properties of the parameter store (specification SpecParam) *)

\* C5: for a non-empty value update_parameter stores the new ParameterValue if and
\* only if nothing is stored under (task, name) or min(1.0, confidence * weight) is
\* strictly above the stored effective confidence; otherwise the stored value,
\* confidence, method and source stay; was_updated is true exactly when the store
\* changed; no other parameter changes
StrictImprovement ==
    \A t \in Tasks, n \in ParamNames, v \in ParamValues, c \in ParamConfs,
       m \in ParamMethods :
        LET existing == GetParameterRet(store, t, n)
            improves ==
                \/ existing = None
                \/ Min(POne, c * MethodWeight(m))
                       > Min(POne, existing.confidence * MethodWeight(existing.method))
            after == StoreUpdateParameter(store, t, n, v, c, m, ParamSource(m))
            was_updated == UpdateParameterRet(store, t, n, v, c, m, ParamSource(m))
        IN ~IsEmptyValue(v) =>
               /\ GetParameterRet(after, t, n)
                      = IF improves THEN ParameterValue(v, c, m, ParamSource(m))
                        ELSE existing
               /\ was_updated <=> improves
               /\ was_updated <=> after # store
               /\ \A t2 \in Tasks, n2 \in ParamNames :
                      (t2 # t \/ n2 # n) =>
                          GetParameterRet(after, t2, n2) = GetParameterRet(store, t2, n2)

\* MANUAL 0.7 is stored; TEXT_OCR 0.6 is lower and TEXT_OCR 0.7 against MANUAL 0.6
\* would be a tie
ManualStoredFirst ==
    \E t \in Tasks :
        /\ GetParameterRet(store, t, Voltage) = ParameterValue(V480, 7000, MANUAL, "manual")
        /\ StoreUpdateParameter(store, t, Voltage, V208, 6000, TEXT_OCR, "photo1") = store
        /\ GetParameterRet(store, t, Phase) = ParameterValue(V208, 6000, MANUAL, "manual")
        /\ StoreUpdateParameter(store, t, Phase, V480, 7000, TEXT_OCR, "photo1") = store

\* the store after update_parameter was called for each item of params in turn
RECURSIVE EachUpdated(_, _, _, _, _, _)
EachUpdated(st, t, params, c, m, source) ==
    IF params = <<>> THEN st
    ELSE EachUpdated(StoreUpdateParameter(st, t, Head(params)[1], Head(params)[2],
                                          c, m, source),
                     t, Tail(params), c, m, source)

\* params without its i-th item
Without(params, i) == SubSeq(params, 1, i - 1) \o SubSeq(params, i + 1, Len(params))

\* what a batch does when `listed` tells the names it handles and `stored` the name
\* it stores a handled name under: an item that is not handled could as well be
\* left out of the batch; the batch is update_parameter called for each handled
\* item in turn, and it returns that call's was_updated under the name as given;
\* no name that is not tracked is in the store afterwards unless it was before
BatchHandles(listed(_), stored(_)) ==
    \A t \in Tasks, params \in BatchInputs, m \in ParamMethods :
        LET source == ParamSource(m)
            after == StoreUpdateParametersBatch(store, t, params, 7000, m, source)
            results == UpdateParametersBatchRet(store, t, params, 7000, m, source)
            handled == SelectSeq(params, LAMBDA item : listed(item[1]))
        IN /\ \A i \in 1..Len(params) :
                  ~listed(params[i][1]) =>
                      /\ ~HasKey(results, params[i][1])
                      /\ StoreUpdateParametersBatch(store, t, Without(params, i), 7000,
                                                    m, source) = after
                      /\ UpdateParametersBatchRet(store, t, Without(params, i), 7000,
                                                  m, source) = results
           /\ after = EachUpdated(store, t,
                                  [i \in 1..Len(handled) |->
                                      <<stored(handled[i][1]), handled[i][2]>>],
                                  7000, m, source)
           /\ \A i \in 1..Len(handled) :
                  /\ HasKey(results, handled[i][1])
                  /\ results[handled[i][1]]
                         = UpdateParameterRet(
                               EachUpdated(store, t,
                                   [j \in 1..(i - 1) |->
                                       <<stored(handled[j][1]), handled[j][2]>>],
                                   7000, m, source),
                               t, stored(handled[i][1]), handled[i][2], 7000, m, source)
           /\ \A t2 \in DOMAIN after :
                  DOMAIN after[t2]
                      \subseteq TRACKED_PARAMETERS
                                \cup (IF HasKey(store, t2) THEN DOMAIN store[t2] ELSE {})

IsTracked(name) == name \in TRACKED_PARAMETERS
IsTrackedLowered(name) == Lower(name) \in TRACKED_PARAMETERS
AsGiven(name) == name

\* C22 as stated: update_parameters_batch ignores every name that is not one of the
\* tracked names (nothing stored, no result entry) and handles every tracked name
\* by the rule of update_parameter; the store gains no name that is not tracked
BatchIgnoresUntracked == BatchHandles(IsTracked, AsGiven)

\* C22, amended: the test is made on the lower-cased name: a name whose lower-cased
\* form is not tracked is ignored; any other name is handled by the rule of
\* update_parameter under its lower-cased form, the result under the name as given
BatchIgnoresUntrackedLowered == BatchHandles(IsTrackedLowered, Lower)

\* the store is what the batch {'Voltage': '480', 'bogus': '208'} leaves of an empty
\* store: one parameter, under 'voltage'
BatchStoredVoltage ==
    \E t \in Tasks, m \in ParamMethods :
        /\ store = StoreUpdateParametersBatch(<<>>, t,
                       << <<<<"V", "o", "l", "t", "a", "g", "e">>, V480>>, <<Bogus, V208>> >>,
                       7000, m, ParamSource(m))
        /\ DOMAIN store[t] = {Voltage}

\* None, '', ' ' and '  '
EmptyValues == {None, Str(<<>>), Blank, Str(<<" ", " ">>)}

\* C23: update_parameter with a None, empty or blank value returns was_updated =
\* false and leaves the store as it is, whatever the confidence and the method,
\* whether or not a value is stored and whether or not the task is known
EmptyValueRejected ==
    \A t \in Tasks, n \in ParamNames, v \in EmptyValues, c \in ParamConfs \cup {0, One},
       m \in ExtractionMethod :
        /\ ~UpdateParameterRet(store, t, n, v, c, m, ParamSource(m))
        /\ StoreUpdateParameter(store, t, n, v, c, m, ParamSource(m)) = store

\* one task holds a value of low effective confidence, the other task is unknown
LowValueBesideUnknownTask ==
    \E t \in Tasks :
        /\ GetParameterRet(store, t, Voltage) = ParameterValue(V480, 6000, TEXT_OCR, "photo1")
        /\ \E t2 \in Tasks : ~HasKey(store, t2)

\* C28: in every step that is not clear_task(t), a parameter stored for t stays
\* stored and min(1.0, confidence * weight) of what is stored does not decrease
EffectiveConfidenceMonotone ==
    [][\A t \in Tasks, n \in ParamNames :
           (HasKey(store, t) /\ HasKey(store[t], n)) =>
               \/ store' = StoreClearTask(store, t)
               \/ /\ HasKey(store', t)
                  /\ HasKey(store'[t], n)
                  /\ Min(POne, store'[t][n].confidence * MethodWeight(store'[t][n].method))
                         >= Min(POne, store[t][n].confidence * MethodWeight(store[t][n].method))]_vars

\* a value from AI_VISION at 0.7 is stored, and update_parameter from MANUAL at 0.7,
\* of lower effective confidence, leaves it
StoredAboveManual ==
    \E t \in Tasks :
        /\ GetParameterRet(store, t, Voltage) = ParameterValue(V480, 7000, AI_VISION, "photo1")
        /\ StoreUpdateParameter(store, t, Voltage, V208, 7000, MANUAL, "manual") = store

-----------------------------------------------------------------------------
(* Properties of the resolver (specifications SpecField, SpecAgree, SpecClose *)
(* and SpecOrder) *)

\* C6 as stated: a field with one observation resolves to exactly min(c, weight)
CeilingExact ==
    Len(fobs) = 1 =>
        fres.confidence = Min(fobs[1].conf, MethodWeight(fobs[1].method))

\* C6: a field with one observation of method M and raw confidence c resolves to
\* min(c, weight[M]) rounded to 3 decimals: within 0.0005 of it, equal to it when it
\* has at most 3 decimals, and never above weight[M]
CeilingRounded ==
    Len(fobs) = 1 =>
        LET w == MethodWeight(fobs[1].method)
            m == Min(fobs[1].conf, w)
        IN /\ fres.confidence <= w
           /\ fres.confidence % 10 = 0
           /\ fres.confidence - m <= 5
           /\ m - fres.confidence <= 5
           /\ m % 10 = 0 => fres.confidence = m

\* one observation whose raw confidence is above the weight of its method
CeilingActs ==
    /\ Len(fobs) = 1
    /\ fobs[1].conf > MethodWeight(fobs[1].method)
    /\ fres.confidence = MethodWeight(fobs[1].method)

\* the field as it was resolved before its last observation
Before == ResolveField(Front(fobs))

\* the last observation agrees with the value the field had resolved to
Agreeing ==
    /\ Len(fobs) >= 2
    /\ NormalizeValue(Last(fobs).value) = NormalizeValue(Before.value)

\* C7 as stated: an agreeing observation never lowers the resolved confidence and
\* raises it whenever its effective confidence is above 0
CorroborationStrict ==
    Agreeing =>
        /\ fres.confidence >= Before.confidence
        /\ EffectiveConf(Last(fobs)) > 0 => fres.confidence > Before.confidence

\* C7: an agreeing observation never lowers the resolved confidence, and raises it
\* whenever it raises the fused confidence before rounding, min(0.98, 1 - product),
\* by at least 0.001
CorroborationMonotone ==
    Len(fobs) >= 2 =>
        LET before == Before
            k == NormalizeValue(Last(fobs).value)
        IN k = NormalizeValue(before.value) =>
               /\ fres.confidence >= before.confidence
               /\ fres.value = before.value
               /\ CombinedConf(GroupMembers(fobs, k))
                      - CombinedConf(GroupMembers(Front(fobs), k)) >= POne \div 1000 =>
                      fres.confidence > before.confidence

\* an agreeing observation that raised the resolved confidence
CorroborationRaises ==
    /\ Agreeing
    /\ fres.confidence > Before.confidence

\* C8: the resolved confidence of a field is at least 0 and at most 0.98
CapInvariant == 0 <= fres.confidence /\ fres.confidence <= CONFIDENCE_CAP

\* three observations whose fusion the cap cuts
CapReached == Len(fobs) = 3 /\ fres.confidence = CONFIDENCE_CAP

\* the normalized values the field has seen, and the fused confidence of each
FieldKeys == {NormalizeValue(fobs[i].value) : i \in 1..Len(fobs)}
FusedConf(k) == CombinedConf(GroupMembers(fobs, k))

\* two distinct values, each fused to 0.3 or more, neither more than twice the other
Rivals(k1, k2) ==
    /\ k1 # k2
    /\ FusedConf(k1) >= CONFLICT_THRESHOLD * One
    /\ FusedConf(k2) >= CONFLICT_THRESHOLD * One
    /\ FusedConf(k1) <= 2 * FusedConf(k2)
    /\ FusedConf(k2) <= 2 * FusedConf(k1)

\* C9 as stated: two such values raise has_conflict whichever value wins
ConflictSymmetry ==
    \A k1 \in FieldKeys, k2 \in FieldKeys : Rivals(k1, k2) => fres.has_conflict

\* C9: two such values raise has_conflict when one of the two is the winner
ConflictWithWinner ==
    \A k1 \in FieldKeys, k2 \in FieldKeys :
        Rivals(k1, k2) /\ NormalizeValue(fres.value) \in {k1, k2} => fres.has_conflict

\* a winner and a weaker value within a factor of two of it
RivalOfWinner ==
    \E k1 \in FieldKeys, k2 \in FieldKeys :
        /\ Rivals(k1, k2)
        /\ NormalizeValue(fres.value) = k1
        /\ FusedConf(k2) < FusedConf(k1)
        /\ fres.has_conflict

\* the group of the winning value, and the other groups fused to 0.3 or more
WinnerKey == NormalizeValue(fres.value)
Competitors == {k \in FieldKeys : k # WinnerKey /\ FusedConf(k) >= CONFLICT_THRESHOLD * One}

\* the groups competing_values lists
CompetingKeys ==
    {NormalizeValue(fres.competing_values[i][1]) : i \in 1..Len(fres.competing_values)}

\* C13 as stated: competing_values lists exactly the non-winning groups fused to 0.3
\* or more, each with its fused confidence
CompetingExact ==
    /\ CompetingKeys = Competitors
    /\ Len(fres.competing_values) = Cardinality(Competitors)
    /\ \A i \in 1..Len(fres.competing_values) :
           fres.competing_values[i][2] * One
               = FusedConf(NormalizeValue(fres.competing_values[i][1]))

\* C13: competing_values lists exactly the non-winning groups fused to 0.3 or more,
\* whether or not they reach half of the winner's confidence, each once, highest
\* first, each with its fused confidence rounded to 2 decimals; TEXT_OCR 20 and 30
\* at 0.9 give a conflict and the one entry (30, 0.6)
CompetingRounded ==
    /\ CompetingKeys = Competitors
    /\ Len(fres.competing_values) = Cardinality(Competitors)
    /\ \A i \in 1..Len(fres.competing_values) :
           LET fused == FusedConf(NormalizeValue(fres.competing_values[i][1]))
               listed == fres.competing_values[i][2]
           IN /\ listed % 100 = 0
              /\ listed * One - fused <= 50 * One
              /\ fused - listed * One <= 50 * One
              /\ \A j \in 1..(i - 1) :
                     FusedConf(NormalizeValue(fres.competing_values[j][1])) >= fused
    /\ fobs = <<FieldTuple(Num(20), 9000, "photo1", TEXT_OCR),
                FieldTuple(Num(30), 9000, "photo1", TEXT_OCR)>>
       => /\ fres.has_conflict
          /\ fres.competing_values = << <<Num(30), 6000>> >>

\* a group listed with a confidence that is not its fused confidence, below half of
\* the winner's, and no conflict
ListedWithoutConflict ==
    /\ ~fres.has_conflict
    /\ \E i \in 1..Len(fres.competing_values) :
           /\ fres.competing_values[i][2] * One
                  # FusedConf(NormalizeValue(fres.competing_values[i][1]))
           /\ 2 * FusedConf(NormalizeValue(fres.competing_values[i][1]))
                  < FusedConf(WinnerKey)

\* the tuples of the field whose value is a str: 'Ab' and ' ab', which differ in case
\* and blanks only; and the others, which all hold the number 30
TextTuples == SelectSeq(fobs, LAMBDA o : IsStr(o.value))
NumberTuples == SelectSeq(fobs, LAMBDA o : ~IsStr(o.value))

\* C27: the text tuples are fused into one group and the numbers into another: the
\* winner's confidence is the fusion of all tuples of its kind, a text winner is
\* displayed as the unmodified value of the first text tuple, the other kind is
\* the only possible competing value, and tuples of one kind alone give neither a
\* competing value nor a conflict
GroupingOfText ==
    fobs # <<>> =>
        /\ IsStr(fres.value) =>
               /\ fres.value = TextTuples[1].value
               /\ fres.confidence = Round3(CombinedConf(TextTuples))
               /\ \A i \in 1..Len(fres.competing_values) :
                      fres.competing_values[i]
                          = <<Num(30), Round2(CombinedConf(NumberTuples))>>
        /\ ~IsStr(fres.value) =>
               /\ fres.value = Num(30)
               /\ fres.confidence = Round3(CombinedConf(NumberTuples))
               /\ \A i \in 1..Len(fres.competing_values) :
                      fres.competing_values[i]
                          = <<TextTuples[1].value, Round2(CombinedConf(TextTuples))>>
        /\ Len(fres.competing_values) <= 1
        /\ (TextTuples = <<>> \/ NumberTuples = <<>>) =>
               ~fres.has_conflict /\ fres.competing_values = <<>>

\* ' ab' and then 'Ab', each from TEXT_OCR at 0.9: one group, shown as ' ab', at
\* 1 - 0.4 * 0.4
CaseAndBlankFused ==
    /\ fobs = <<FieldTuple(DescAbBlank, 9000, "photo1", TEXT_OCR),
                FieldTuple(DescAb, 9000, "photo1", TEXT_OCR)>>
    /\ fres = ResolvedField(DescAbBlank, 8400, <<"photo1">>, FALSE, <<>>)

\* C29 as stated: a conflict comes with a competing value; every confidence of
\* competing_values is at least 0.3 and at most the fused confidence of the winning
\* group; a field without observations resolves to None, 0, no sources, no conflict
\* and no competing values
CompetingBelowWinner ==
    /\ fres.has_conflict => fres.competing_values # <<>>
    /\ \A i \in 1..Len(fres.competing_values) :
           /\ fres.competing_values[i][2] >= CONFLICT_THRESHOLD
           /\ fres.competing_values[i][2] * One <= FusedConf(WinnerKey)
    /\ fobs = <<>> => fres = ResolvedField(None, 0, <<>>, FALSE, <<>>)

\* C29, amended: the confidences of competing_values are rounded to 2 decimals, so
\* they are at most the fused confidence of the winning group rounded to 2 decimals
CompetingBelowWinnerRounded ==
    /\ fres.has_conflict => fres.competing_values # <<>>
    /\ \A i \in 1..Len(fres.competing_values) :
           /\ fres.competing_values[i][2] >= CONFLICT_THRESHOLD
           /\ fres.competing_values[i][2] <= Round2(FusedConf(WinnerKey))
    /\ fobs = <<>> => fres = ResolvedField(None, 0, <<>>, FALSE, <<>>)

\* 20 at 0.3052 wins over 30 at 0.3051, which is listed with 0.31
CompetingAboveWinner ==
    /\ fobs = <<FieldTuple(Num(20), 3052, "photo1", AI_VISION),
                FieldTuple(Num(30), 3051, "photo1", AI_VISION)>>
    /\ fres = ResolvedField(Num(20), 3050, <<"photo1">>, TRUE, <<<<Num(30), 3100>>>>)

\* the tuples of obs, each taken as an observation of the method m
AsMethod(obs, m) == [i \in 1..Len(obs) |-> [obs[i] EXCEPT !.method = m]]

\* C24 as stated: the weights are strictly ordered, AI_VISION > MANUAL >
\* AI_OCR_FALLBACK > TEXT_OCR, and a MANUAL observation of a raw confidence at or
\* above the weights resolves strictly higher than an AI_OCR_FALLBACK one
MethodOrderStrict ==
    (Len(fobs) = 1 /\ fobs[1].method = MANUAL /\ fobs[1].conf >= MethodWeight(AI_VISION)) =>
        /\ MethodWeight(AI_VISION) > MethodWeight(MANUAL)
        /\ MethodWeight(MANUAL) > MethodWeight(AI_OCR_FALLBACK)
        /\ MethodWeight(AI_OCR_FALLBACK) > MethodWeight(TEXT_OCR)
        /\ fres.confidence > ResolveField(AsMethod(fobs, AI_OCR_FALLBACK)).confidence

\* C24, amended: AI_VISION > MANUAL = AI_OCR_FALLBACK > TEXT_OCR.  Observations
\* resolve to the same ResolvedField as MANUAL and as AI_OCR_FALLBACK ones, never
\* lower than as TEXT_OCR ones and never higher than as AI_VISION ones; a single
\* observation of a raw confidence at or above the weights resolves strictly
\* higher as MANUAL than as TEXT_OCR and strictly lower than as AI_VISION
MethodOrder ==
    /\ MethodWeight(AI_VISION) > MethodWeight(MANUAL)
    /\ MethodWeight(MANUAL) = MethodWeight(AI_OCR_FALLBACK)
    /\ MethodWeight(AI_OCR_FALLBACK) > MethodWeight(TEXT_OCR)
    /\ fobs # <<>> =>
           LET manual == ResolveField(AsMethod(fobs, MANUAL))
               text == ResolveField(AsMethod(fobs, TEXT_OCR)).confidence
               vision == ResolveField(AsMethod(fobs, AI_VISION)).confidence
           IN /\ manual = ResolveField(AsMethod(fobs, AI_OCR_FALLBACK))
              /\ text <= manual.confidence
              /\ manual.confidence <= vision
              /\ (Len(fobs) = 1 /\ fobs[1].conf >= MethodWeight(AI_VISION)) =>
                     text < manual.confidence /\ manual.confidence < vision

\* one MANUAL observation of raw confidence 0.9 is resolved at its ceiling, 0.7
ManualAtCeiling ==
    /\ Len(fobs) = 1
    /\ fobs[1].method = MANUAL
    /\ fobs[1].conf = 9000
    /\ fres.confidence = 7000

\* obs with its tuples i and i + 1 in the other order
SwapNext(obs, i) ==
    [j \in 1..Len(obs) |-> IF j = i THEN obs[i + 1] ELSE IF j = i + 1 THEN obs[i] ELSE obs[j]]

\* the competing values of a ResolvedField, each under its normalized value
CompetingOf(r) ==
    {<<NormalizeValue(r.competing_values[i][1]), r.competing_values[i][2]>> :
        i \in 1..Len(r.competing_values)}

\* no two groups of obs have the same fused confidence
NoEqualGroups(obs) ==
    LET keys == GroupKeys(obs)
    IN \A i \in 1..Len(keys) : \A j \in 1..Len(keys) :
           i # j => CombinedConf(GroupMembers(obs, keys[i]))
                        # CombinedConf(GroupMembers(obs, keys[j]))

\* two resolutions tell the same: the same has_conflict flag, under the same winner
\* the same confidence of the winner and of every competing value, and the same
\* winner when the groups of neither list have equal fused confidences
SameResolution(obs, other) ==
    LET r == ResolveField(obs)
        q == ResolveField(other)
    IN /\ r.has_conflict = q.has_conflict
       /\ NormalizeValue(r.value) = NormalizeValue(q.value) =>
              /\ r.confidence = q.confidence
              /\ CompetingOf(r) = CompetingOf(q)
       /\ (NoEqualGroups(obs) /\ NoEqualGroups(other)) =>
              NormalizeValue(r.value) = NormalizeValue(q.value)

\* C30 as stated: the resolution of a field does not depend on the order in which
\* its observations arrived: the list with two neighbours exchanged resolves to
\* the same confidences, the same has_conflict flag and, ties apart, the same
\* winner (every list is reached, and every order of a list is reached from it by
\* exchanges of neighbours)
OrderIndependence ==
    \A i \in 1..(Len(fobs) - 1) : SameResolution(fobs, SwapNext(fobs, i))

-----------------------------------------------------------------------------
(* Properties of concurrent calls (specification SpecThreads) *)

\* the resolution rc was computed from a list that held the observation of thread w
HoldsObservationOf(rc, w) ==
    /\ rc # None
    /\ \E i \in 1..Len(rc.breaker_amps.sources) :
           rc.breaker_amps.sources[i] = WriterArgs(w).source_id

\* C11: a get_resolved_circuit call that began after an add_observation call on the
\* same (task, circuit) had returned gives back a resolution, cached or computed,
\* of a list that holds the observation of that call
NoStaleRead ==
    \A r \in Readers :
        threads[r].pc = "done" =>
            \A w \in threads[r].returned : HoldsObservationOf(threads[r].ret, w)

====
